---- MODULE Spec2Model ----
(***************************************************************************)
(* A model of the High language front end and runtime: LexerService,       *)
(* ParserService and HighEnduranceRuntime.  Source text and every other    *)
(* Rust String is a TLA+ string; CharAt reads one character of it.         *)
(***************************************************************************)
EXTENDS Integers, Sequences, FiniteSets, TLC

(***************************************************************************)
(* Characters (std::char classification, restricted to ASCII).             *)
(***************************************************************************)
CharAt(s, i) == SubSeq(s, i, i)

\* Body(value), with value computed once, before Body is entered.
With(value, Body(_)) == CHOOSE r \in { Body(x) : x \in {value} } : TRUE

DigitChars == "0123456789"

IsDigit(c) == c \in {CharAt(DigitChars, i) : i \in 1..Len(DigitChars)}

AlphaChars == "abcdefghijklmnopqrstuvwxyzABCDEFGHIJKLMNOPQRSTUVWXYZ"

IsAlphabetic(c) == c \in {CharAt(AlphaChars, i) : i \in 1..Len(AlphaChars)}

IsAlphanumeric(c) == IsAlphabetic(c) \/ IsDigit(c)

IsWhitespace(c) == c \in {" ", "\n", "\t"}

(***************************************************************************)
(* data_structures.rs: Span, Token, Option.                                *)
(***************************************************************************)
Span(s, e) == [start |-> s, end |-> e]

None == [some |-> FALSE]

Some(x) == [some |-> TRUE, v |-> x]

Token(kind, s, e) == [kind |-> kind, span |-> Span(s, e)]

(***************************************************************************)
(* LexerService (lexer_service.rs).  position counts the characters read,  *)
(* so peek() is the character at position + 1.                             *)
(***************************************************************************)
HasPeek(src, pos) == pos < Len(src)

Peek(src, pos) == CharAt(src, pos + 1)

\* skip_whitespace with one advance at most.
skip_whitespace_one(src, pos) ==
    IF HasPeek(src, pos) /\ IsWhitespace(Peek(src, pos)) THEN pos + 1 ELSE pos

\* skip_whitespace: the position after the run of whitespace at pos.
RECURSIVE skip_whitespace(_, _)
skip_whitespace(src, pos) ==
    IF HasPeek(src, pos) /\ IsWhitespace(Peek(src, pos))
    THEN skip_whitespace(src, pos + 1)
    ELSE pos

\* The loop of read_identifier_or_keyword: the position after the run of
\* alphanumerics and underscores at pos.
RECURSIVE IdentifierEnd(_, _)
IdentifierEnd(src, pos) ==
    IF HasPeek(src, pos) /\ (IsAlphanumeric(Peek(src, pos)) \/ Peek(src, pos) = "_")
    THEN IdentifierEnd(src, pos + 1)
    ELSE pos

\* The keyword table of read_identifier_or_keyword.
Keywords ==
    << <<"fn", "Fn">>, <<"let", "Let">>, <<"mut", "Mut">>, <<"if", "If">>,
       <<"else", "Else">>, <<"while", "While">>, <<"for", "For">>,
       <<"return", "Return">>, <<"match", "Match">>, <<"macro", "Macro">>,
       <<"type_of", "TypeOf">>, <<"eval", "Eval">>, <<"reflect", "Reflect">>,
       <<"async", "Async">>, <<"await", "Await">>, <<"int", "Int">>,
       <<"float", "Float">>, <<"bool", "Bool">>, <<"string", "String">>,
       <<"void", "Void">>, <<"any", "Any">> >>

read_identifier_or_keyword(src, start) ==
    With(IdentifierEnd(src, start), LAMBDA end :
    With(SubSeq(src, start + 1, end), LAMBDA literal :
    LET hits == {i \in 1..Len(Keywords) : Keywords[i][1] = literal}
    IN  IF literal = "true"
        THEN [kind |-> "BooleanLiteral", value |-> TRUE, span |-> Span(start, end)]
        ELSE IF literal = "false"
        THEN [kind |-> "BooleanLiteral", value |-> FALSE, span |-> Span(start, end)]
        ELSE IF hits # {}
        THEN Token(Keywords[CHOOSE i \in hits : TRUE][2], start, end)
        ELSE [kind |-> "Identifier", name |-> literal, span |-> Span(start, end)]))

\* The loop of read_number: digits and dots are both taken, every time.
RECURSIVE NumberEnd(_, _)
NumberEnd(src, pos) ==
    IF HasPeek(src, pos) /\ (IsDigit(Peek(src, pos)) \/ Peek(src, pos) = ".")
    THEN NumberEnd(src, pos + 1)
    ELSE pos

DigitValue(c) == CHOOSE i \in 0..9 : CharAt(DigitChars, i + 1) = c

\* str::parse::<i64>() on a string of digits.  The numbers of the sources read
\* here are far below 2^63, so the unwrap_or_default() fallback never applies.
RECURSIVE ParseI64(_)
ParseI64(literal) ==
    IF Len(literal) = 0
    THEN 0
    ELSE IF Len(literal) = 1
    THEN DigitValue(literal)
    ELSE 10 * ParseI64(SubSeq(literal, 1, Len(literal) - 1))
            + DigitValue(CharAt(literal, Len(literal)))

read_number(src, start) ==
    With(NumberEnd(src, start), LAMBDA end :
    With(SubSeq(src, start + 1, end), LAMBDA literal :
    LET is_float == \E i \in 1..Len(literal) : CharAt(literal, i) = "."
    IN  IF is_float
        THEN [kind |-> "FloatLiteral", text |-> literal, span |-> Span(start, end)]
        ELSE [kind |-> "IntegerLiteral", value |-> ParseI64(literal),
              span |-> Span(start, end)]))

\* One arm of read_symbol that looks one character ahead: `two` when the
\* character after the first is `second`, else `one`.
Lookahead(src, start, second, two, one) ==
    IF HasPeek(src, start + 1) /\ Peek(src, start + 1) = second
    THEN Token(two, start, start + 2)
    ELSE Token(one, start, start + 1)

SingleSymbols ==
    << <<"*", "Asterisk">>, <<"/", "Slash">>, <<"%", "Percent">>,
       <<"^", "BitXor">>, <<"?", "Question">>, <<":", "Colon">>,
       <<"{", "LBrace">>, <<"}", "RBrace">>, <<"(", "LParen">>,
       <<")", "RParen">>, <<"[", "LBracket">>, <<"]", "RBracket">>,
       <<",", "Comma">>, <<";", "Semicolon">>, <<".", "Dot">> >>

\* read_symbol with the rest of the source taken by the arm for the other
\* characters.
read_symbol_rest(src, start, c) ==
    IF c \in {CharAt("=+-*/%!&|^<>?:{}()[],;.", k) : k \in 1..23}
    THEN Token("Symbol", start, start + 1)
    ELSE [kind |-> "Illegal", ch |-> c, span |-> Span(start, Len(src))]

read_symbol(src, start, c) ==
    LET hits == {i \in 1..Len(SingleSymbols) : SingleSymbols[i][1] = c}
    IN  CASE c = "=" -> Lookahead(src, start, "=", "Eq", "Assign")
          [] c = "+" -> Lookahead(src, start, "=", "PlusAssign", "Plus")
          [] c = "-" -> Lookahead(src, start, "=", "MinusAssign", "Minus")
          [] c = "!" -> Lookahead(src, start, "=", "Neq", "Bang")
          [] c = "&" -> Lookahead(src, start, "&", "And", "BitAnd")
          [] c = "|" -> Lookahead(src, start, "|", "Or", "BitOr")
          [] c = "<" -> IF HasPeek(src, start + 1) /\ Peek(src, start + 1) = "<"
                        THEN Token("ShiftLeft", start, start + 2)
                        ELSE Lookahead(src, start, "=", "LessEqual", "Less")
          [] c = ">" -> IF HasPeek(src, start + 1) /\ Peek(src, start + 1) = ">"
                        THEN Token("ShiftRight", start, start + 2)
                        ELSE Lookahead(src, start, "=", "GreaterEqual", "Greater")
          [] hits # {} -> Token(SingleSymbols[CHOOSE i \in hits : TRUE][2],
                                start, start + 1)
          [] OTHER -> [kind |-> "Illegal", ch |-> c, span |-> Span(start, start + 1)]

EofToken(pos) == Token("Eof", pos, pos)

\* The loop of tokenize, from position pos with `tokens` already produced.
RECURSIVE TokenizeFrom(_, _, _)
TokenizeFrom(src, pos, tokens) ==
    IF ~HasPeek(src, pos)
    THEN [tokens |-> Append(tokens, EofToken(pos)), position |-> pos]
    ELSE With(skip_whitespace(src, pos), LAMBDA start :
         IF ~HasPeek(src, start)
         THEN [tokens |-> Append(tokens, EofToken(start)), position |-> start]
         ELSE LET c == Peek(src, start)
              IN  With(IF IsAlphabetic(c) \/ c = "_"
                       THEN read_identifier_or_keyword(src, start)
                       ELSE IF IsDigit(c)
                       THEN read_number(src, start)
                       ELSE read_symbol(src, start, c),
                       LAMBDA token :
                           With(Append(tokens, token), LAMBDA more :
                               TokenizeFrom(src, token.span.end, more))))

tokenize(src) == TokenizeFrom(src, 0, <<>>)

\* LexerService::new: the whole source is tokenized at construction.
NewLexerService(src) ==
    With(tokenize(src), LAMBDA done :
        [source |-> src, position |-> done.position,
         tokens |-> done.tokens, index |-> 0])

\* next_token with the cursor moved on every call.
next_token_moving(lx) ==
    IF lx.index < Len(lx.tokens)
    THEN [token |-> lx.tokens[lx.index + 1],
          lexer |-> [lx EXCEPT !.index = @ + 1]]
    ELSE [token |-> EofToken(lx.position),
          lexer |-> [lx EXCEPT !.index = @ + 1]]

\* LexerService::next_token: the token served and the lexer after the call.
next_token(lx) ==
    With(lx, LAMBDA self :
        IF self.index < Len(self.tokens)
        THEN [token |-> self.tokens[self.index + 1],
              lexer |-> [self EXCEPT !.index = @ + 1]]
        ELSE [token |-> EofToken(self.position), lexer |-> self])


(***************************************************************************)
(* data_structures.rs: Value, and the text {:?} and {} print.              *)
(***************************************************************************)
ValueInteger(n) == [kind |-> "Integer", n |-> n]

\* A float is held as the decimal text {:?} prints for it.
ValueFloat(repr) == [kind |-> "Float", repr |-> repr]

ValueBoolean(b) == [kind |-> "Boolean", b |-> b]

ValueString(s) == [kind |-> "String", v |-> s]

ValueNull == [kind |-> "Null"]

ValueError(msg) == [kind |-> "Error", v |-> msg]

ValueReflection(type_name, details) ==
    [kind |-> "Reflection", type_name |-> type_name, details |-> details]

ValueMacro(name) == [kind |-> "Macro", v |-> name]

ValueType(name) == [kind |-> "Type", v |-> name]

\* Display of an integer.
RECURSIVE IntToStr(_)
IntToStr(n) ==
    IF n < 0 THEN "-" \o IntToStr(0 - n)
    ELSE IF n < 10 THEN CharAt(DigitChars, n + 1)
    ELSE IntToStr(n \div 10) \o CharAt(DigitChars, (n % 10) + 1)

\* The body of <str as Debug>::fmt: quotes and backslashes are escaped, the
\* single quote is not.
RECURSIVE EscapeDebug(_, _)
EscapeDebug(s, i) ==
    IF i > Len(s) THEN ""
    ELSE LET c == CharAt(s, i)
             e == CASE c = "\"" -> "\\\""
                    [] c = "\\" -> "\\\\"
                    [] c = "\n" -> "\\n"
                    [] c = "\t" -> "\\t"
                    [] OTHER -> c
         IN  e \o EscapeDebug(s, i + 1)

DebugStr(s) == "\"" \o EscapeDebug(s, 1) \o "\""

\* #[derive(Debug)] on Value, for the values the runtime produces.
DebugValue(val) ==
    CASE val.kind = "Integer" -> "Integer(" \o IntToStr(val.n) \o ")"
      [] val.kind = "Float" -> "Float(" \o val.repr \o ")"
      [] val.kind = "Boolean" ->
            "Boolean(" \o (IF val.b THEN "true" ELSE "false") \o ")"
      [] val.kind = "String" -> "String(" \o DebugStr(val.v) \o ")"
      [] val.kind = "Null" -> "Null"
      [] val.kind = "Error" -> "Error(" \o DebugStr(val.v) \o ")"
      [] val.kind = "Reflection" ->
            "Reflection(ReflectionInfo { type_name: " \o DebugStr(val.type_name)
                \o ", details: " \o DebugStr(val.details) \o " })"
      [] val.kind = "Macro" -> "Macro(" \o DebugStr(val.v) \o ")"
      [] val.kind = "Type" -> "Type(" \o DebugStr(val.v) \o ")"

\* The leading zeros of the integer part are dropped, one digit is kept.
RECURSIVE StripLeadingZeros(_)
StripLeadingZeros(s) ==
    IF Len(s) > 1 /\ CharAt(s, 1) = "0"
    THEN StripLeadingZeros(SubSeq(s, 2, Len(s)))
    ELSE s

RECURSIVE StripTrailingZeros(_)
StripTrailingZeros(s) ==
    IF Len(s) > 0 /\ CharAt(s, Len(s)) = "0"
    THEN StripTrailingZeros(SubSeq(s, 1, Len(s) - 1))
    ELSE s

\* str::parse::<f64>().unwrap_or(0.0) on the text of a FloatLiteral (digits and
\* dots, a digit first), as the decimal text of the float: a text with one dot
\* is a float, any other fails to parse.
ParseF64(text) ==
    LET dots == {i \in 1..Len(text) : CharAt(text, i) = "."}
    IN  IF Cardinality(dots) # 1
        THEN "0.0"
        ELSE LET d == CHOOSE i \in dots : TRUE
                 ip == StripLeadingZeros(SubSeq(text, 1, d - 1))
                 fp == StripTrailingZeros(SubSeq(text, d + 1, Len(text)))
             IN  ip \o "." \o (IF fp = "" THEN "0" ELSE fp)

(***************************************************************************)
(* data_structures.rs: Expression, Statement, TypeAnnotation, Program,     *)
(* Diagnostic.                                                             *)
(***************************************************************************)
Literal(span, val) == [kind |-> "Literal", span |-> span, val |-> val]

Identifier(span, name) == [kind |-> "Identifier", span |-> span, name |-> name]

PrefixOperation(span, op, right) ==
    [kind |-> "PrefixOperation", span |-> span, op |-> op, right |-> right]

InfixOperation(span, op, left, right) ==
    [kind |-> "InfixOperation", span |-> span, op |-> op, left |-> left,
     right |-> right]

Ternary(span, cond, then, else) ==
    [kind |-> "Ternary", span |-> span, condition |-> cond, then_branch |-> then,
     else_branch |-> else]

FunctionLiteral(span, parameters, body) ==
    [kind |-> "Function", span |-> span, parameters |-> parameters, body |-> body]

Call(span, callee, args) ==
    [kind |-> "Call", span |-> span, callee |-> callee, args |-> args]

Grouped(span, inner) == [kind |-> "Grouped", span |-> span, inner |-> inner]

Reflect(span, inner) == [kind |-> "Reflect", span |-> span, inner |-> inner]

Eval(span, inner) == [kind |-> "Eval", span |-> span, inner |-> inner]

TypeOf(span, inner) == [kind |-> "TypeOf", span |-> span, inner |-> inner]

MacroCall(span, name, args) ==
    [kind |-> "MacroCall", span |-> span, name |-> name, args |-> args]

ExpressionStatement(expr) == [kind |-> "ExpressionStatement", expr |-> expr]

LetStatement(name, value, type_annotation, is_mutable) ==
    [kind |-> "LetStatement", name |-> name, value |-> value,
     type_annotation |-> type_annotation, is_mutable |-> is_mutable]

ReturnStatement(expr) == [kind |-> "ReturnStatement", expr |-> expr]

BlockStatement(statements) ==
    [kind |-> "BlockStatement", statements |-> statements, span |-> Span(0, 0)]

IfStatement(condition, then_branch, else_branch) ==
    [kind |-> "IfStatement", condition |-> condition, then_branch |-> then_branch,
     else_branch |-> else_branch]

WhileStatement(condition, body) ==
    [kind |-> "WhileStatement", condition |-> condition, body |-> body]

ForStatement(initializer, condition, increment, body) ==
    [kind |-> "ForStatement", initializer |-> initializer, condition |-> condition,
     increment |-> increment, body |-> body]

MacroDefinition(name, parameters, body) ==
    [kind |-> "MacroDefinition", name |-> name, parameters |-> parameters,
     body |-> body]

TypeAnnotation(kind) == [kind |-> kind]

TypeAnnotationCustom(name) == [kind |-> "Custom", name |-> name]

Program(statements) ==
    [root_id |-> 0, statements |-> statements, span |-> Span(0, 0)]

Diagnostic(level, message, span, help) ==
    [level |-> level, message |-> message, span |-> span, help |-> help]

(***************************************************************************)
(* ParserService (parser_service.rs).  A parse function that neither loops *)
(* over statements nor calls parse_statement is an operator from the       *)
(* parser before the call to the parser after it and the Option returned.  *)
(***************************************************************************)
\* ParserService::advance
advance(ps) ==
    With(ps, LAMBDA self :
    With(next_token(self.lexer), LAMBDA next :
        [lexer |-> next.lexer, current |-> self.peek, peek |-> next.token]))

\* ParserService::new
NewParserService(lexer) ==
    With(lexer, LAMBDA lx :
        advance(advance([lexer |-> lx, current |-> EofToken(0), peek |-> EofToken(0)])))

Returned(ps, result) == [parser |-> ps, result |-> result]

RECURSIVE parse_expression(_)
RECURSIVE ParseMacroCallArgs(_, _)
\* The argument loop of the Identifier arm of parse_expression.
ParseMacroCallArgs(ps, args) ==
    IF ps.current.kind = "RParen"
    THEN Returned(ps, Some(args))
    ELSE With(parse_expression(ps), LAMBDA arg :
         IF ~arg.result.some
         THEN Returned(arg.parser, None)
         ELSE With(Append(args, arg.result.v), LAMBDA more :
                  ParseMacroCallArgs(
                      IF arg.parser.current.kind = "Comma"
                      THEN advance(arg.parser) ELSE arg.parser,
                      more)))

parse_expression(ps) ==
    With(advance(ps), LAMBDA p1 :
    LET start == ps.current.span.start
        kind == ps.current.kind
        SpanTo(p) == Span(start, p.current.span.end)
    IN  CASE kind \in {"Eval", "Reflect", "TypeOf"} ->
                With(parse_expression(p1), LAMBDA inner :
                    IF inner.result.some
                    THEN Returned(inner.parser,
                                  Some([kind |-> kind, span |-> SpanTo(inner.parser),
                                        inner |-> inner.result.v]))
                    ELSE Returned(inner.parser, None))
          [] kind = "Identifier" ->
                IF p1.current.kind = "LParen"
                THEN With(ParseMacroCallArgs(advance(p1), <<>>), LAMBDA args :
                         LET p2 == advance(args.parser)
                         IN  IF args.result.some
                             THEN Returned(p2, Some(MacroCall(SpanTo(p2),
                                                              ps.current.name,
                                                              args.result.v)))
                             ELSE Returned(args.parser, None))
                ELSE Returned(p1, Some(Identifier(SpanTo(p1), ps.current.name)))
          [] kind = "IntegerLiteral" ->
                Returned(p1, Some(Literal(SpanTo(p1), ValueInteger(ps.current.value))))
          [] kind = "FloatLiteral" ->
                Returned(p1, Some(Literal(SpanTo(p1),
                                          ValueFloat(ParseF64(ps.current.text)))))
          [] kind = "BooleanLiteral" ->
                Returned(p1, Some(Literal(SpanTo(p1), ValueBoolean(ps.current.value))))
          [] kind = "LParen" ->
                With(parse_expression(p1), LAMBDA inner :
                    LET p2 == advance(inner.parser)
                    IN  IF ~inner.result.some
                        THEN Returned(inner.parser, None)
                        ELSE IF inner.parser.current.kind = "RParen"
                        THEN Returned(p2, Some(Grouped(SpanTo(p2), inner.result.v)))
                        ELSE Returned(inner.parser, None))
          [] OTHER -> Returned(ps, None))

\* parse_type_annotation reads the current token and does not advance.
parse_type_annotation(ps) ==
    IF ps.current.kind = "Identifier"
    THEN Some(TypeAnnotationCustom(ps.current.name))
    ELSE IF ps.current.kind \in {"Int", "Float", "Bool", "String", "Void", "Any"}
    THEN Some(TypeAnnotation(ps.current.kind))
    ELSE None

parse_let_statement(ps) ==
    With(advance(ps), LAMBDA p1 :
    LET is_mutable == p1.current.kind = "Mut"
    IN  With(IF is_mutable THEN advance(p1) ELSE p1, LAMBDA p2 :
        With(advance(p2), LAMBDA p3 :
        LET annotated == p3.current.kind = "Colon"
        IN  With(IF annotated THEN advance(p3) ELSE p3, LAMBDA p4 :
            LET type_annotation == IF annotated THEN parse_type_annotation(p4)
                                   ELSE None
            IN  IF p2.current.kind # "Identifier"
                THEN Returned(p2, None)
                ELSE IF p4.current.kind # "Assign"
                THEN Returned(p4, None)
                ELSE With(parse_expression(advance(p4)), LAMBDA value :
                     IF ~value.result.some
                     THEN Returned(value.parser, None)
                     ELSE Returned(value.parser,
                                   Some(LetStatement(p2.current.name, value.result.v,
                                                     type_annotation, is_mutable))))))))

parse_return_statement(ps) ==
    With(parse_expression(advance(ps)), LAMBDA expr :
        IF expr.result.some
        THEN Returned(expr.parser, Some(ReturnStatement(expr.result.v)))
        ELSE Returned(expr.parser, None))

parse_expression_statement(ps) ==
    With(parse_expression(ps), LAMBDA expr :
        IF expr.result.some
        THEN Returned(expr.parser, Some(ExpressionStatement(expr.result.v)))
        ELSE Returned(expr.parser, None))

(***************************************************************************)
(* State.  The parser: the ParserService (with its LexerService), the      *)
(* stack of its parse functions that are waiting for parse_statement, the  *)
(* place of control, the Option the last parse function returned and the   *)
(* Program parse_program returned.  The runtime: the Program handed to the *)
(* top-level execute_program, the call stack, the live                     *)
(* HighEnduranceRuntime objects, the live Environment objects, the value   *)
(* the last call returned, and whether the run was cut off at MaxOutput.   *)
(* evals is history: the source and the result of every eval_string call   *)
(* that has returned.  The services on their own: a LexerService that is   *)
(* asked for its tokens, a Program on its way through Optimizer::optimize  *)
(* and ends_with_return, and a call of CompilerService::compile.           *)
(***************************************************************************)
VARIABLES parser, pstack, ppc, pret, parsed,
          program, stack, rts, envs, ret, cut, evals,
          lexing, passes, compiler

ParserVars == <<parser, pstack, ppc, pret, parsed>>

RuntimeVars == <<program, stack, rts, envs, ret, cut, evals>>

ServiceVars == <<lexing, passes, compiler>>

vars == <<parser, pstack, ppc, pret, parsed,
          program, stack, rts, envs, ret, cut, evals,
          lexing, passes, compiler>>

\* A service that is not in use.
Idle == [pc |-> "idle"]

\* No ParserService is alive.
NoParser == [lexer |-> None, current |-> EofToken(0), peek |-> EofToken(0)]

Push(s, f) == Append(s, f)

Pop(s) == SubSeq(s, 1, Len(s) - 1)

Top(s) == s[Len(s)]

SetTop(s, f) == [s EXCEPT ![Len(s)] = f]

(***************************************************************************)
(* ParserService: parse_program, parse_statement and the parse functions   *)
(* that call parse_statement, one step per loop pass, call and return.     *)
(* ppc = "loop": the top frame is at the head of its while loop;           *)
(* "statement": parse_statement is entered; "return": a parse function has *)
(* returned pret to the top frame; "done": parse_program has returned.     *)
(***************************************************************************)
\* parse_program, the loop test: return the Program at Eof, else call
\* parse_statement.
ParseProgramLoop ==
    /\ ppc = "loop"
    /\ Top(pstack).fn = "parse_program"
    /\ IF parser.current.kind = "Eof"
       THEN /\ parsed' = Some(Program(Top(pstack).statements))
            /\ pstack' = Pop(pstack)
            /\ ppc' = "done"
       ELSE /\ ppc' = "statement"
            /\ UNCHANGED <<parsed, pstack>>
    /\ UNCHANGED <<parser, pret>>
    /\ UNCHANGED RuntimeVars
    /\ UNCHANGED ServiceVars

\* parse_program, the loop body after parse_statement: push the statement, or
\* advance over one token.
ParseProgramResume ==
    /\ ppc = "return"
    /\ Top(pstack).fn = "parse_program"
    /\ IF pret.some
       THEN /\ pstack' = SetTop(pstack, [Top(pstack) EXCEPT
                                            !.statements = Append(@, pret.v)])
            /\ UNCHANGED parser
       ELSE /\ parser' = advance(parser)
            /\ UNCHANGED pstack
    /\ ppc' = "loop"
    /\ pret' = None
    /\ UNCHANGED parsed
    /\ UNCHANGED RuntimeVars
    /\ UNCHANGED ServiceVars

\* parse_statement -> parse_let_statement
ParseStatementLet ==
    /\ ppc = "statement"
    /\ parser.current.kind = "Let"
    /\ parser' = parse_let_statement(parser).parser
    /\ pret' = parse_let_statement(parser).result
    /\ ppc' = "return"
    /\ UNCHANGED <<pstack, parsed>>
    /\ UNCHANGED RuntimeVars
    /\ UNCHANGED ServiceVars

\* parse_statement -> parse_return_statement
ParseStatementReturn ==
    /\ ppc = "statement"
    /\ parser.current.kind = "Return"
    /\ parser' = parse_return_statement(parser).parser
    /\ pret' = parse_return_statement(parser).result
    /\ ppc' = "return"
    /\ UNCHANGED <<pstack, parsed>>
    /\ UNCHANGED RuntimeVars
    /\ UNCHANGED ServiceVars

\* parse_statement -> parse_expression_statement, the default arm
ParseStatementExpression ==
    /\ ppc = "statement"
    /\ parser.current.kind \notin {"Let", "Return", "If", "For", "Macro", "LBrace"}
    /\ parser' = parse_expression_statement(parser).parser
    /\ pret' = parse_expression_statement(parser).result
    /\ ppc' = "return"
    /\ UNCHANGED <<pstack, parsed>>
    /\ UNCHANGED RuntimeVars
    /\ UNCHANGED ServiceVars

BlockFrame == [fn |-> "parse_block_statement", statements |-> <<>>]

\* parse_statement -> parse_block_statement: consume the `{`, enter the loop.
ParseStatementBlock ==
    /\ ppc = "statement"
    /\ parser.current.kind = "LBrace"
    /\ parser' = advance(parser)
    /\ pstack' = Push(pstack, BlockFrame)
    /\ ppc' = "loop"
    /\ UNCHANGED <<pret, parsed>>
    /\ UNCHANGED RuntimeVars
    /\ UNCHANGED ServiceVars

\* parse_block_statement, the loop test: at `}` consume it and return the
\* block, else call parse_statement.  Eof does not end the loop.
ParseBlockLoop ==
    /\ ppc = "loop"
    /\ Top(pstack).fn = "parse_block_statement"
    /\ IF parser.current.kind = "RBrace"
       THEN /\ parser' = advance(parser)
            /\ pret' = Some(BlockStatement(Top(pstack).statements))
            /\ pstack' = Pop(pstack)
            /\ ppc' = "return"
       ELSE /\ ppc' = "statement"
            /\ UNCHANGED <<parser, pret, pstack>>
    /\ UNCHANGED parsed
    /\ UNCHANGED RuntimeVars
    /\ UNCHANGED ServiceVars

\* parse_block_statement, the loop body after parse_statement.
ParseBlockResume ==
    /\ ppc = "return"
    /\ Top(pstack).fn = "parse_block_statement"
    /\ IF pret.some
       THEN /\ pstack' = SetTop(pstack, [Top(pstack) EXCEPT
                                            !.statements = Append(@, pret.v)])
            /\ UNCHANGED parser
       ELSE /\ parser' = advance(parser)
            /\ UNCHANGED pstack
    /\ ppc' = "loop"
    /\ pret' = None
    /\ UNCHANGED parsed
    /\ UNCHANGED RuntimeVars
    /\ UNCHANGED ServiceVars

\* parse_statement -> parse_if_statement, up to the call of parse_statement
\* for the then branch.
ParseIfStatement ==
    /\ ppc = "statement"
    /\ parser.current.kind = "If"
    /\ LET condition == parse_expression(advance(parser))
       IN  /\ parser' = condition.parser
           /\ IF condition.result.some
              THEN /\ pstack' = Push(pstack, [fn |-> "parse_if_statement",
                                              pc |-> "then_branch",
                                              condition |-> condition.result.v,
                                              then_branch |-> None])
                   /\ ppc' = "statement"
                   /\ UNCHANGED pret
              ELSE /\ pret' = None
                   /\ ppc' = "return"
                   /\ UNCHANGED pstack
    /\ UNCHANGED parsed
    /\ UNCHANGED RuntimeVars
    /\ UNCHANGED ServiceVars

\* parse_if_statement after a branch was parsed.
ParseIfResume ==
    /\ ppc = "return"
    /\ Top(pstack).fn = "parse_if_statement"
    /\ LET f == Top(pstack)
       IN  IF ~pret.some
           THEN /\ pstack' = Pop(pstack)
                /\ pret' = None
                /\ UNCHANGED <<parser, ppc>>
           ELSE IF f.pc = "then_branch" /\ parser.current.kind = "Else"
           THEN /\ parser' = advance(parser)
                /\ pstack' = SetTop(pstack, [f EXCEPT !.pc = "else_branch",
                                                      !.then_branch = pret])
                /\ ppc' = "statement"
                /\ pret' = None
           ELSE /\ pstack' = Pop(pstack)
                /\ pret' = Some(IfStatement(
                               f.condition,
                               IF f.pc = "then_branch" THEN pret.v ELSE f.then_branch.v,
                               IF f.pc = "then_branch" THEN None ELSE pret))
                /\ UNCHANGED <<parser, ppc>>
    /\ UNCHANGED parsed
    /\ UNCHANGED RuntimeVars
    /\ UNCHANGED ServiceVars

\* parse_for_statement from the condition on: the condition and the increment.
ParseForHeader(ps) ==
    LET has_condition == ps.current.kind # "Semicolon"
        condition == IF has_condition
                     THEN parse_expression(ps)
                     ELSE Returned(advance(ps), None)
        p2 == condition.parser
        has_increment == p2.current.kind # "LBrace"
        increment == IF has_increment THEN parse_expression(p2) ELSE Returned(p2, None)
    IN  IF has_condition /\ ~condition.result.some
        THEN Returned(p2, None)
        ELSE IF has_increment /\ ~increment.result.some
        THEN Returned(increment.parser, None)
        ELSE Returned(increment.parser,
                      Some([condition |-> condition.result,
                            increment |-> increment.result]))

ForFrame(initializer, header) ==
    [fn |-> "parse_for_statement", pc |-> "body", initializer |-> initializer,
     condition |-> header.condition, increment |-> header.increment]

\* parse_statement -> parse_for_statement, up to its first call of
\* parse_statement (for the initializer, or else for the body).
ParseForStatement ==
    /\ ppc = "statement"
    /\ parser.current.kind = "For"
    /\ LET p1 == advance(parser)
           header == ParseForHeader(advance(p1))
       IN  IF p1.current.kind # "Semicolon"
           THEN /\ parser' = p1
                /\ pstack' = Push(pstack, [fn |-> "parse_for_statement",
                                           pc |-> "initializer"])
                /\ ppc' = "statement"
                /\ UNCHANGED pret
           ELSE /\ parser' = header.parser
                /\ IF header.result.some
                   THEN /\ pstack' = Push(pstack, ForFrame(None, header.result.v))
                        /\ ppc' = "statement"
                        /\ UNCHANGED pret
                   ELSE /\ pret' = None
                        /\ ppc' = "return"
                        /\ UNCHANGED pstack
    /\ UNCHANGED parsed
    /\ UNCHANGED RuntimeVars
    /\ UNCHANGED ServiceVars

\* parse_for_statement after the initializer or the body was parsed.
ParseForResume ==
    /\ ppc = "return"
    /\ Top(pstack).fn = "parse_for_statement"
    /\ LET f == Top(pstack)
           header == ParseForHeader(parser)
       IN  IF ~pret.some
           THEN /\ pstack' = Pop(pstack)
                /\ pret' = None
                /\ UNCHANGED <<parser, ppc>>
           ELSE IF f.pc = "initializer"
           THEN /\ parser' = header.parser
                /\ IF header.result.some
                   THEN /\ pstack' = SetTop(pstack, ForFrame(pret, header.result.v))
                        /\ ppc' = "statement"
                        /\ pret' = None
                   ELSE /\ pstack' = Pop(pstack)
                        /\ pret' = None
                        /\ UNCHANGED ppc
           ELSE /\ pstack' = Pop(pstack)
                /\ pret' = Some(ForStatement(f.initializer, f.condition,
                                             f.increment, pret.v))
                /\ UNCHANGED <<parser, ppc>>
    /\ UNCHANGED parsed
    /\ UNCHANGED RuntimeVars
    /\ UNCHANGED ServiceVars

\* The parameter loop of parse_macro_definition.
RECURSIVE ParseMacroParams(_, _)
ParseMacroParams(ps, params) ==
    IF ps.current.kind = "RParen" \/ ps.current.kind # "Identifier"
    THEN [parser |-> ps, params |-> params]
    ELSE With(advance(ps), LAMBDA p1 :
         With(<<IF p1.current.kind = "Comma" THEN advance(p1) ELSE p1,
                Append(params, ps.current.name)>>, LAMBDA next :
             ParseMacroParams(next[1], next[2])))

\* parse_statement -> parse_macro_definition, up to the loop of the
\* parse_block_statement it calls for the body (whose first token it consumes
\* whatever it is).
ParseMacroDefinition ==
    /\ ppc = "statement"
    /\ parser.current.kind = "Macro"
    /\ LET p1 == advance(parser)
           p2 == advance(p1)
           listed == ParseMacroParams(advance(p2), <<>>)
           p3 == IF p2.current.kind = "LParen" THEN advance(listed.parser) ELSE p2
           params == IF p2.current.kind = "LParen" THEN listed.params ELSE <<>>
       IN  IF p1.current.kind # "Identifier"
           THEN /\ parser' = p1
                /\ pret' = None
                /\ ppc' = "return"
                /\ UNCHANGED pstack
           ELSE /\ parser' = advance(p3)
                /\ pstack' = Push(Push(pstack, [fn |-> "parse_macro_definition",
                                                name |-> p1.current.name,
                                                parameters |-> params]),
                                  BlockFrame)
                /\ ppc' = "loop"
                /\ UNCHANGED pret
    /\ UNCHANGED parsed
    /\ UNCHANGED RuntimeVars
    /\ UNCHANGED ServiceVars

\* parse_macro_definition after its body was parsed.
ParseMacroResume ==
    /\ ppc = "return"
    /\ Top(pstack).fn = "parse_macro_definition"
    /\ pstack' = Pop(pstack)
    /\ pret' = IF pret.some
               THEN Some(MacroDefinition(Top(pstack).name, Top(pstack).parameters,
                                         pret.v))
               ELSE None
    /\ UNCHANGED <<parser, ppc, parsed>>
    /\ UNCHANGED RuntimeVars
    /\ UNCHANGED ServiceVars

ParseNext ==
    \/ ParseProgramLoop
    \/ ParseProgramResume
    \/ ParseStatementLet
    \/ ParseStatementReturn
    \/ ParseStatementExpression
    \/ ParseStatementBlock
    \/ ParseBlockLoop
    \/ ParseBlockResume
    \/ ParseIfStatement
    \/ ParseIfResume
    \/ ParseForStatement
    \/ ParseForResume
    \/ ParseMacroDefinition
    \/ ParseMacroResume

\* The frame of a parse_program that was just called.
ProgramFrame == [fn |-> "parse_program", statements |-> <<>>]

(***************************************************************************)
(* Environment (ft_runtime.rs).  An Rc<RefCell<Environment>> is an index   *)
(* into envs; outer = 0 is None.                                           *)
(***************************************************************************)
EmptyStore == [n \in {} |-> ValueNull]

\* Environment::new
NewEnvironment == [store |-> EmptyStore, outer |-> 0]

\* Environment::new_enclosed
new_enclosed(outer) == [store |-> EmptyStore, outer |-> outer]

\* A variant of get that asks the outer scope first.
RECURSIVE get_outer_first(_, _, _)
get_outer_first(h, e, name) ==
    IF h[e].outer # 0 /\ get_outer_first(h, h[e].outer, name).some
    THEN get_outer_first(h, h[e].outer, name)
    ELSE IF name \in DOMAIN h[e].store
    THEN Some(h[e].store[name])
    ELSE None

\* Environment::get on the environment e of the heap h
RECURSIVE get(_, _, _)
get(h, e, name) ==
    IF name \in DOMAIN h[e].store
    THEN Some(h[e].store[name])
    ELSE IF h[e].outer = 0
    THEN None
    ELSE get(h, h[e].outer, name)

\* A variant of set that writes to the nearest scope that binds the name.
RECURSIVE set_through(_, _, _, _)
set_through(h, e, name, val) ==
    IF name \in DOMAIN h[e].store \/ ~get(h, e, name).some
    THEN [h EXCEPT ![e].store = (name :> val) @@ @]
    ELSE set_through(h, h[e].outer, name, val)

\* Environment::set on the environment e of the heap h: the heap after it
set(h, e, name, val) == [h EXCEPT ![e].store = (name :> val) @@ @]

(***************************************************************************)
(* HighEnduranceRuntime (ft_runtime.rs): the values and lines it builds.   *)
(***************************************************************************)
\* HighEnduranceRuntime::new, and the block_rt of the BlockStatement arm: a
\* runtime on the environment e with an empty output.
NewRuntime(e) == [environment |-> e, output |-> <<>>]

\* A variant of TerminalDiagnostic with the balance taken modulo 2.
TerminalDiagnosticEven(executed_count, span) ==
    IF executed_count > 0 /\ executed_count % 2 # 0
    THEN Diagnostic("HerFatal",
                    "Unbalanced execution flow: " \o IntToStr(executed_count)
                        \o " statements",
                    span, Some("Ensure control flows terminate correctly."))
    ELSE Diagnostic("Info",
                    "Executed " \o IntToStr(executed_count)
                        \o " statements successfully.",
                    span, None)

\* The Diagnostic execute_program builds after its statement loop.
TerminalDiagnostic(executed_count, span) ==
    IF executed_count > 0 /\ executed_count % 3 # 0
    THEN Diagnostic("HerFatal",
                    "Unbalanced execution flow: " \o IntToStr(executed_count)
                        \o " statements",
                    span, Some("Ensure control flows terminate correctly."))
    ELSE Diagnostic("Info",
                    "Executed " \o IntToStr(executed_count)
                        \o " statements successfully.",
                    span, None)

\* matches!(diag.level, DiagnosticLevel::HerFatal | DiagnosticLevel::Error)
IsFailure(diag) == diag.level \in {"HerFatal", "Error"}

\* matches!(val, Value::Boolean(true))
IsTrue(val) == val.kind = "Boolean" /\ val.b

\* reflect
reflect(val) ==
    LET type_name == CASE val.kind = "Integer" -> "int"
                       [] val.kind = "Float" -> "float"
                       [] val.kind = "Boolean" -> "bool"
                       [] val.kind = "String" -> "string"
                       [] val.kind = "Null" -> "null"
                       [] val.kind = "Error" -> "error"
                       [] val.kind = "Reflection" -> "reflection"
                       [] val.kind = "Macro" -> "macro"
                       [] val.kind = "Type" -> "type"
    IN  ValueReflection(type_name, DebugValue(val))

\* The TypeOf arm of evaluate_expression, after its operand was evaluated.
TypeOfValue(val) ==
    CASE val.kind = "Integer" -> ValueType("int")
      [] val.kind = "Float" -> ValueType("float")
      [] val.kind = "Boolean" -> ValueType("bool")
      [] val.kind = "String" -> ValueType("string")
      [] OTHER -> ValueType("unknown")

\* A variant of EvalStringValue that takes the first line of the output.
EvalStringValueFirst(diag, output) ==
    IF IsFailure(diag)
    THEN ValueError("Eval failed: " \o diag.message)
    ELSE IF Len(output) > 0
    THEN ValueString(output[1])
    ELSE ValueNull

\* The end of eval_string, from the Diagnostic and the output of its runtime,
\* and the match on it in the Eval arm of evaluate_expression.
EvalStringValue(diag, output) ==
    IF IsFailure(diag)
    THEN ValueError("Eval failed: " \o diag.message)
    ELSE IF Len(output) > 0
    THEN ValueString(output[Len(output)])
    ELSE ValueNull

(***************************************************************************)
(* The call stack of the runtime.  A frame of execute_program holds self   *)
(* (rt, an index into rts), the Program, the index i of the statement of   *)
(* the for loop, executed_count and the place pc inside the match arm.  A  *)
(* frame of evaluate_expression holds self, the expression and the place.  *)
(* first_error, body_failed, body_entered, scope_before and caller are     *)
(* history: the first statement of the sequence that yielded a             *)
(* Value::Error, whether a body of the loop has returned a failure,        *)
(* whether the body of the loop was entered, the store of the scope when   *)
(* the body was entered, and rts and envs when the Eval arm was entered.   *)
(***************************************************************************)
ExecFrame(rt, prog) ==
    [fn |-> "execute_program", rt |-> rt, program |-> prog, i |-> 1,
     executed_count |-> 0, pc |-> "statement",
     first_error |-> 0, body_failed |-> FALSE, body_entered |-> FALSE,
     scope_before |-> EmptyStore]

ExprFrame(rt, expr) ==
    [fn |-> "evaluate_expression", rt |-> rt, expr |-> expr, pc |-> "match",
     source |-> "", caller |-> <<>>]

\* The largest output a runtime may hold when a loop starts another pass.
MaxOutput == 4

InExec(pc) ==
    /\ stack # <<>>
    /\ Top(stack).fn = "execute_program"
    /\ Top(stack).pc = pc

\* The statement the for loop of execute_program is at.
AtStatement(kind) ==
    /\ InExec("statement")
    /\ ~ret.some
    /\ Top(stack).i <= Len(Top(stack).program.statements)
    /\ Top(stack).program.statements[Top(stack).i].kind = kind

Statement == Top(stack).program.statements[Top(stack).i]

\* self.output.push(line) on the runtime r
PushOutput(r, line) == [rts EXCEPT ![r].output = Append(@, line)]

\* The frame after its statement was executed: executed_count += 1 and the
\* loop moves on.
Counted(f) == [f EXCEPT !.executed_count = @ + 1, !.i = @ + 1, !.pc = "statement"]

\* The Program execute_program builds for one nested statement.
Singleton(f, statement) ==
    [root_id |-> 0, statements |-> <<statement>>, span |-> f.program.span]

\* A variant of HighEnduranceRuntimeNew whose Environment is enclosed in the
\* Environment created last, the scope of the caller.
HighEnduranceRuntimeEnclosed(h) ==
    [envs |-> Append(h, new_enclosed(Len(h))), runtime |-> NewRuntime(Len(h) + 1)]

\* HighEnduranceRuntime::new with the heap h: the heap with the new
\* Environment, and the runtime on it.
HighEnduranceRuntimeNew(h) ==
    [envs |-> Append(h, NewEnvironment), runtime |-> NewRuntime(Len(h) + 1)]

(***************************************************************************)
(* execute_program, one action per call, return and loop test.             *)
(***************************************************************************)
\* The statement loop has ended: build the Diagnostic and return it.
ExecFinish ==
    /\ InExec("statement")
    /\ ~ret.some
    /\ Top(stack).i > Len(Top(stack).program.statements)
    /\ ret' = Some(TerminalDiagnostic(Top(stack).executed_count,
                                      Top(stack).program.span))
    /\ stack' = Pop(stack)
    /\ UNCHANGED <<program, rts, envs, cut, evals>>
    /\ UNCHANGED ParserVars
    /\ UNCHANGED ServiceVars

\* ExpressionStatement, LetStatement, ReturnStatement: call
\* evaluate_expression on the expression of the statement.
ExecEvaluate ==
    /\ \/ AtStatement("ExpressionStatement")
       \/ AtStatement("LetStatement")
       \/ AtStatement("ReturnStatement")
    /\ LET f == Top(stack)
           expr == IF Statement.kind = "LetStatement"
                   THEN Statement.value ELSE Statement.expr
       IN  stack' = Push(SetTop(stack, [f EXCEPT !.pc = "value"]),
                         ExprFrame(f.rt, expr))
    /\ UNCHANGED <<program, rts, envs, ret, cut, evals>>
    /\ UNCHANGED ParserVars
    /\ UNCHANGED ServiceVars

\* The frame after a statement whose expression evaluated to val.
AfterValue(f, val) ==
    [Counted(f) EXCEPT !.first_error =
        IF @ = 0 /\ val.kind = "Error" THEN f.i ELSE @]

\* ExpressionStatement after the value: log it.
ExecExpressionStatement ==
    /\ InExec("value")
    /\ ret.some
    /\ Statement.kind = "ExpressionStatement"
    /\ rts' = PushOutput(Top(stack).rt, "Expression result: " \o DebugValue(ret.v))
    /\ stack' = SetTop(stack, AfterValue(Top(stack), ret.v))
    /\ ret' = None
    /\ UNCHANGED <<program, envs, cut, evals>>
    /\ UNCHANGED ParserVars
    /\ UNCHANGED ServiceVars

\* LetStatement after the value: bind the name in the scope of the runtime,
\* log the binding.
ExecLetStatement ==
    /\ InExec("value")
    /\ ret.some
    /\ Statement.kind = "LetStatement"
    /\ envs' = set(envs, rts[Top(stack).rt].environment, Statement.name, ret.v)
    /\ rts' = PushOutput(Top(stack).rt, "Variable '" \o Statement.name \o "' bound")
    /\ stack' = SetTop(stack, AfterValue(Top(stack), ret.v))
    /\ ret' = None
    /\ UNCHANGED <<program, cut, evals>>
    /\ UNCHANGED ParserVars
    /\ UNCHANGED ServiceVars

\* A variant of ExecReturnStatement that leaves the statement loop.
ExecReturnStatementLeaves ==
    /\ InExec("value")
    /\ ret.some
    /\ Statement.kind = "ReturnStatement"
    /\ rts' = PushOutput(Top(stack).rt, "Return value: " \o DebugValue(ret.v))
    /\ stack' = SetTop(stack, [AfterValue(Top(stack), ret.v) EXCEPT
                                  !.i = Len(Top(stack).program.statements) + 1])
    /\ ret' = None
    /\ UNCHANGED <<program, envs, cut, evals>>
    /\ UNCHANGED ParserVars
    /\ UNCHANGED ServiceVars

\* ReturnStatement after the value: log it; the loop goes on.
ExecReturnStatement ==
    /\ InExec("value")
    /\ ret.some
    /\ Statement.kind = "ReturnStatement"
    /\ rts' = PushOutput(Top(stack).rt, "Return value: " \o DebugValue(ret.v))
    /\ stack' = SetTop(stack, AfterValue(Top(stack), ret.v))
    /\ ret' = None
    /\ UNCHANGED <<program, envs, cut, evals>>
    /\ UNCHANGED ParserVars
    /\ UNCHANGED ServiceVars

\* A variant of ExecBlockStatement whose block_rt runs on the scope of self.
ExecBlockStatementShared ==
    /\ AtStatement("BlockStatement")
    /\ LET f == Top(stack)
           block_rt == Len(rts) + 1
       IN  /\ envs' = Append(envs, new_enclosed(rts[f.rt].environment))
           /\ rts' = Append(PushOutput(f.rt, "Entering block scope."),
                            NewRuntime(rts[f.rt].environment))
           /\ stack' = Push(SetTop(stack, [f EXCEPT !.pc = "block"]),
                            ExecFrame(block_rt,
                                      [root_id |-> 0,
                                       statements |-> Statement.statements,
                                       span |-> f.program.span]))
    /\ UNCHANGED <<program, ret, cut, evals>>
    /\ UNCHANGED ParserVars
    /\ UNCHANGED ServiceVars

\* BlockStatement: log, build block_rt on a new scope enclosed in the scope of
\* self, call block_rt.execute_program on the statements of the block.
ExecBlockStatement ==
    /\ AtStatement("BlockStatement")
    /\ LET f == Top(stack)
           block_rt == Len(rts) + 1
       IN  /\ envs' = Append(envs, new_enclosed(rts[f.rt].environment))
           /\ rts' = Append(PushOutput(f.rt, "Entering block scope."),
                            NewRuntime(Len(envs) + 1))
           /\ stack' = Push(SetTop(stack, [f EXCEPT !.pc = "block"]),
                            ExecFrame(block_rt,
                                      [root_id |-> 0,
                                       statements |-> Statement.statements,
                                       span |-> f.program.span]))
    /\ UNCHANGED <<program, ret, cut, evals>>
    /\ UNCHANGED ParserVars
    /\ UNCHANGED ServiceVars

\* A variant of ExecBlockReturned that drops the Diagnostic of the block.
ExecBlockReturnedDropped ==
    /\ InExec("block")
    /\ ret.some
    /\ LET f == Top(stack)
           block_rt == rts[Len(rts)]
       IN  /\ rts' = [Pop(rts) EXCEPT ![f.rt].output = @ \o block_rt.output]
           /\ envs' = Pop(envs)
           /\ stack' = SetTop(stack, Counted(f))
           /\ ret' = None
    /\ UNCHANGED <<program, cut, evals>>
    /\ UNCHANGED ParserVars
    /\ UNCHANGED ServiceVars

\* BlockStatement after block_rt returned: take its output, drop it and its
\* scope, count the statement, return its Diagnostic when that is a failure.
ExecBlockReturned ==
    /\ InExec("block")
    /\ ret.some
    /\ LET f == Top(stack)
           block_rt == rts[Len(rts)]
       IN  /\ rts' = [Pop(rts) EXCEPT ![f.rt].output = @ \o block_rt.output]
           /\ envs' = Pop(envs)
           /\ IF IsFailure(ret.v)
              THEN /\ stack' = Pop(stack)
                   /\ UNCHANGED ret
              ELSE /\ stack' = SetTop(stack, Counted(f))
                   /\ ret' = None
    /\ UNCHANGED <<program, cut, evals>>
    /\ UNCHANGED ParserVars
    /\ UNCHANGED ServiceVars

\* IfStatement: evaluate the condition.
ExecIfStatement ==
    /\ AtStatement("IfStatement")
    /\ stack' = Push(SetTop(stack, [Top(stack) EXCEPT !.pc = "if_condition"]),
                     ExprFrame(Top(stack).rt, Statement.condition))
    /\ UNCHANGED <<program, rts, envs, ret, cut, evals>>
    /\ UNCHANGED ParserVars
    /\ UNCHANGED ServiceVars

\* The frame that calls self.execute_program on one nested statement, and the
\* frame of that call.
CallNested(f, pc, statement) ==
    Push(SetTop(stack, [f EXCEPT !.pc = pc,
                                 !.scope_before = envs[rts[f.rt].environment].store]),
         ExecFrame(f.rt, Singleton(f, statement)))

\* IfStatement after the condition: call self.execute_program on the branch
\* taken, if there is one.
ExecIfBranch ==
    /\ InExec("if_condition")
    /\ ret.some
    /\ LET f == Top(stack)
       IN  IF IsTrue(ret.v)
           THEN stack' = CallNested(f, "if_branch", Statement.then_branch)
           ELSE IF Statement.else_branch.some
           THEN stack' = CallNested(f, "if_branch", Statement.else_branch.v)
           ELSE stack' = SetTop(stack, Counted(f))
    /\ ret' = None
    /\ UNCHANGED <<program, rts, envs, cut, evals>>
    /\ UNCHANGED ParserVars
    /\ UNCHANGED ServiceVars

\* IfStatement after the branch: its Diagnostic is dropped.
ExecIfReturned ==
    /\ InExec("if_branch")
    /\ ret.some
    /\ stack' = SetTop(stack, Counted(Top(stack)))
    /\ ret' = None
    /\ UNCHANGED <<program, rts, envs, cut, evals>>
    /\ UNCHANGED ParserVars
    /\ UNCHANGED ServiceVars

\* Whether the loop of the frame f may start another pass in the model.
Bounded(f) == Len(rts[f.rt].output) <= MaxOutput

\* WhileStatement: evaluate the condition for the first time.
ExecWhileStatement ==
    /\ AtStatement("WhileStatement")
    /\ stack' = Push(SetTop(stack, [Top(stack) EXCEPT !.pc = "while_condition"]),
                     ExprFrame(Top(stack).rt, Statement.condition))
    /\ UNCHANGED <<program, rts, envs, ret, cut, evals>>
    /\ UNCHANGED ParserVars
    /\ UNCHANGED ServiceVars

\* WhileStatement after the condition: call self.execute_program on the body,
\* or leave the loop.
ExecWhileTest ==
    /\ InExec("while_condition")
    /\ ret.some
    /\ LET f == Top(stack)
       IN  IF IsTrue(ret.v)
           THEN stack' = CallNested([f EXCEPT !.body_entered = TRUE],
                                    "while_body", Statement.body)
           ELSE stack' = SetTop(stack, [Counted(f) EXCEPT !.body_failed = FALSE,
                                                          !.body_entered = FALSE])
    /\ ret' = None
    /\ UNCHANGED <<program, rts, envs, cut, evals>>
    /\ UNCHANGED ParserVars
    /\ UNCHANGED ServiceVars

\* WhileStatement after the body: its Diagnostic is dropped, the condition is
\* evaluated again.
ExecWhileReturned ==
    /\ InExec("while_body")
    /\ ret.some
    /\ Bounded(Top(stack))
    /\ stack' = Push(SetTop(stack, [Top(stack) EXCEPT
                                       !.pc = "while_condition",
                                       !.body_failed = @ \/ IsFailure(ret.v)]),
                     ExprFrame(Top(stack).rt, Statement.condition))
    /\ ret' = None
    /\ UNCHANGED <<program, rts, envs, cut, evals>>
    /\ UNCHANGED ParserVars
    /\ UNCHANGED ServiceVars

\* ForStatement: call self.execute_program on the initializer, if any.
ExecForStatement ==
    /\ AtStatement("ForStatement")
    /\ LET f == Top(stack)
       IN  IF Statement.initializer.some
           THEN stack' = Push(SetTop(stack, [f EXCEPT !.pc = "for_initializer"]),
                              ExecFrame(f.rt, Singleton(f, Statement.initializer.v)))
           ELSE stack' = SetTop(stack, [f EXCEPT !.pc = "for_test"])
    /\ UNCHANGED <<program, rts, envs, ret, cut, evals>>
    /\ UNCHANGED ParserVars
    /\ UNCHANGED ServiceVars

\* ForStatement after the initializer: its Diagnostic is dropped.
ExecForInitialized ==
    /\ InExec("for_initializer")
    /\ ret.some
    /\ stack' = SetTop(stack, [Top(stack) EXCEPT !.pc = "for_test"])
    /\ ret' = None
    /\ UNCHANGED <<program, rts, envs, cut, evals>>
    /\ UNCHANGED ParserVars
    /\ UNCHANGED ServiceVars

\* ForStatement, the loop test: without a condition call
\* self.execute_program on the body, else evaluate the condition.
ExecForTest ==
    /\ InExec("for_test")
    /\ ~ret.some
    /\ Bounded(Top(stack))
    /\ LET f == Top(stack)
       IN  IF Statement.condition.some
           THEN stack' = Push(SetTop(stack, [f EXCEPT !.pc = "for_condition"]),
                              ExprFrame(f.rt, Statement.condition.v))
           ELSE stack' = CallNested([f EXCEPT !.body_entered = TRUE],
                                    "for_body", Statement.body)
    /\ UNCHANGED <<program, rts, envs, ret, cut, evals>>
    /\ UNCHANGED ParserVars
    /\ UNCHANGED ServiceVars

\* ForStatement after the condition: call self.execute_program on the body,
\* or leave the loop.
ExecForCondition ==
    /\ InExec("for_condition")
    /\ ret.some
    /\ LET f == Top(stack)
       IN  IF IsTrue(ret.v)
           THEN stack' = CallNested([f EXCEPT !.body_entered = TRUE],
                                    "for_body", Statement.body)
           ELSE stack' = SetTop(stack, [Counted(f) EXCEPT !.body_failed = FALSE,
                                                          !.body_entered = FALSE])
    /\ ret' = None
    /\ UNCHANGED <<program, rts, envs, cut, evals>>
    /\ UNCHANGED ParserVars
    /\ UNCHANGED ServiceVars

\* ForStatement after the body: its Diagnostic is dropped; evaluate the
\* increment, if any.
ExecForReturned ==
    /\ InExec("for_body")
    /\ ret.some
    /\ LET f == [Top(stack) EXCEPT !.body_failed = @ \/ IsFailure(ret.v)]
       IN  IF Statement.increment.some
           THEN stack' = Push(SetTop(stack, [f EXCEPT !.pc = "for_increment"]),
                              ExprFrame(f.rt, Statement.increment.v))
           ELSE stack' = SetTop(stack, [f EXCEPT !.pc = "for_test"])
    /\ ret' = None
    /\ UNCHANGED <<program, rts, envs, cut, evals>>
    /\ UNCHANGED ParserVars
    /\ UNCHANGED ServiceVars

\* ForStatement after the increment: its value is dropped.
ExecForIncremented ==
    /\ InExec("for_increment")
    /\ ret.some
    /\ stack' = SetTop(stack, [Top(stack) EXCEPT !.pc = "for_test"])
    /\ ret' = None
    /\ UNCHANGED <<program, rts, envs, cut, evals>>
    /\ UNCHANGED ParserVars
    /\ UNCHANGED ServiceVars

\* MacroDefinition: bind the name to Value::Macro, log the definition.
ExecMacroDefinition ==
    /\ AtStatement("MacroDefinition")
    /\ envs' = set(envs, rts[Top(stack).rt].environment, Statement.name,
                   ValueMacro(Statement.name))
    /\ rts' = PushOutput(Top(stack).rt,
                         "Macro '" \o Statement.name \o "' defined with "
                             \o IntToStr(Len(Statement.parameters))
                             \o " parameter(s)")
    /\ stack' = SetTop(stack, Counted(Top(stack)))
    /\ UNCHANGED <<program, ret, cut, evals>>
    /\ UNCHANGED ParserVars
    /\ UNCHANGED ServiceVars

\* The model follows a loop no further once the output of its runtime has
\* passed MaxOutput: the run is cut off.
CutOff ==
    /\ \/ InExec("while_body") /\ ret.some
       \/ InExec("for_test")
    /\ ~Bounded(Top(stack))
    /\ cut' = TRUE
    /\ stack' = <<>>
    /\ ret' = None
    /\ UNCHANGED <<program, rts, envs, evals>>
    /\ UNCHANGED ParserVars
    /\ UNCHANGED ServiceVars

(***************************************************************************)
(* evaluate_expression, one action per match arm, call and return.         *)
(***************************************************************************)
InEval(pc) ==
    /\ stack # <<>>
    /\ Top(stack).fn = "evaluate_expression"
    /\ Top(stack).pc = pc

\* evaluate_expression returns val to its caller.
ReturnValue(val) ==
    /\ stack' = Pop(stack)
    /\ ret' = Some(val)

\* Expression::Literal
EvalLiteral ==
    /\ InEval("match")
    /\ Top(stack).expr.kind = "Literal"
    /\ ReturnValue(Top(stack).expr.val)
    /\ UNCHANGED <<program, rts, envs, cut, evals>>
    /\ UNCHANGED ParserVars
    /\ UNCHANGED ServiceVars

\* A variant of EvalIdentifier where a name that is not bound yields its text.
EvalIdentifierText ==
    /\ InEval("match")
    /\ Top(stack).expr.kind = "Identifier"
    /\ LET name == Top(stack).expr.name
           found == get(envs, rts[Top(stack).rt].environment, name)
       IN  ReturnValue(IF found.some THEN found.v ELSE ValueString(name))
    /\ UNCHANGED <<program, rts, envs, cut, evals>>
    /\ UNCHANGED ParserVars
    /\ UNCHANGED ServiceVars

\* Expression::Identifier
EvalIdentifier ==
    /\ InEval("match")
    /\ Top(stack).expr.kind = "Identifier"
    /\ LET name == Top(stack).expr.name
           found == get(envs, rts[Top(stack).rt].environment, name)
       IN  ReturnValue(IF found.some THEN found.v
                       ELSE ValueError("Undefined variable '" \o name \o "'"))
    /\ UNCHANGED <<program, rts, envs, cut, evals>>
    /\ UNCHANGED ParserVars
    /\ UNCHANGED ServiceVars

\* Expression::MacroCall: log the call, the arguments are not evaluated.
EvalMacroCall ==
    /\ InEval("match")
    /\ Top(stack).expr.kind = "MacroCall"
    /\ rts' = PushOutput(Top(stack).rt,
                         "Macro '" \o Top(stack).expr.name \o "' called with "
                             \o IntToStr(Len(Top(stack).expr.args)) \o " args")
    /\ ReturnValue(ValueNull)
    /\ UNCHANGED <<program, envs, cut, evals>>
    /\ UNCHANGED ParserVars
    /\ UNCHANGED ServiceVars

\* The arms of evaluate_expression before the wildcard arm.
EvaluatedKinds ==
    {"Literal", "Identifier", "Reflect", "Eval", "TypeOf", "MacroCall"}

\* The wildcard arm.
EvalUnsupported ==
    /\ InEval("match")
    /\ Top(stack).expr.kind \notin EvaluatedKinds
    /\ ReturnValue(ValueError("Unsupported expression"))
    /\ UNCHANGED <<program, rts, envs, cut, evals>>
    /\ UNCHANGED ParserVars
    /\ UNCHANGED ServiceVars

\* Expression::Reflect, Eval, TypeOf: evaluate the operand.
EvalOperand ==
    /\ InEval("match")
    /\ Top(stack).expr.kind \in {"Reflect", "Eval", "TypeOf"}
    /\ stack' = Push(SetTop(stack, [Top(stack) EXCEPT !.pc = "operand"]),
                     ExprFrame(Top(stack).rt, Top(stack).expr.inner))
    /\ UNCHANGED <<program, rts, envs, ret, cut, evals>>
    /\ UNCHANGED ParserVars
    /\ UNCHANGED ServiceVars

\* Expression::Reflect after the operand
EvalReflect ==
    /\ InEval("operand")
    /\ ret.some
    /\ Top(stack).expr.kind = "Reflect"
    /\ ReturnValue(reflect(ret.v))
    /\ UNCHANGED <<program, rts, envs, cut, evals>>
    /\ UNCHANGED ParserVars
    /\ UNCHANGED ServiceVars

\* Expression::TypeOf after the operand
EvalTypeOf ==
    /\ InEval("operand")
    /\ ret.some
    /\ Top(stack).expr.kind = "TypeOf"
    /\ ReturnValue(TypeOfValue(ret.v))
    /\ UNCHANGED <<program, rts, envs, cut, evals>>
    /\ UNCHANGED ParserVars
    /\ UNCHANGED ServiceVars

\* Expression::Eval after the operand, when it is not a Value::String
EvalExpectsString ==
    /\ InEval("operand")
    /\ ret.some
    /\ Top(stack).expr.kind = "Eval"
    /\ ret.v.kind # "String"
    /\ ReturnValue(ValueError("eval() expects a string"))
    /\ UNCHANGED <<program, rts, envs, cut, evals>>
    /\ UNCHANGED ParserVars
    /\ UNCHANGED ServiceVars

\* Expression::Eval after the operand, when it is a Value::String: call
\* eval_string, which builds the lexer and the parser and calls
\* parse_program.
EvalString ==
    /\ InEval("operand")
    /\ ret.some
    /\ Top(stack).expr.kind = "Eval"
    /\ ret.v.kind = "String"
    /\ stack' = SetTop(stack, [Top(stack) EXCEPT
                                  !.pc = "parse_program",
                                  !.source = ret.v.v,
                                  !.caller = [rts |-> rts, envs |-> envs]])
    /\ ret' = None
    /\ parser' = NewParserService(NewLexerService(ret.v.v))
    /\ pstack' = <<ProgramFrame>>
    /\ ppc' = "loop"
    /\ pret' = None
    /\ parsed' = None
    /\ UNCHANGED <<program, rts, envs, cut, evals>>
    /\ UNCHANGED ServiceVars

\* eval_string after parse_program: build the runtime and call
\* execute_program on the Program.
EvalStringExecute ==
    /\ InEval("parse_program")
    /\ ppc = "done"
    /\ envs' = HighEnduranceRuntimeNew(envs).envs
    /\ rts' = Append(rts, HighEnduranceRuntimeNew(envs).runtime)
    /\ stack' = Push(SetTop(stack, [Top(stack) EXCEPT !.pc = "execute_program"]),
                     ExecFrame(Len(rts) + 1, parsed.v))
    /\ parser' = NoParser
    /\ ppc' = "idle"
    /\ parsed' = None
    /\ UNCHANGED <<pstack, pret>>
    /\ UNCHANGED <<program, ret, cut, evals>>
    /\ UNCHANGED ServiceVars

\* eval_string after execute_program, and the match of the Eval arm on its
\* result: the runtime and its scope are dropped.
EvalStringReturn ==
    /\ InEval("execute_program")
    /\ ret.some
    /\ LET val == EvalStringValue(ret.v, rts[Len(rts)].output)
       IN  /\ ReturnValue(val)
           /\ evals' = evals \cup {[source |-> Top(stack).source, result |-> val]}
    /\ rts' = Pop(rts)
    /\ envs' = Pop(envs)
    /\ UNCHANGED <<program, cut>>
    /\ UNCHANGED ParserVars
    /\ UNCHANGED ServiceVars

RunNext ==
    \/ ExecFinish
    \/ ExecEvaluate
    \/ ExecExpressionStatement
    \/ ExecLetStatement
    \/ ExecReturnStatement
    \/ ExecBlockStatement
    \/ ExecBlockReturned
    \/ ExecIfStatement
    \/ ExecIfBranch
    \/ ExecIfReturned
    \/ ExecWhileStatement
    \/ ExecWhileTest
    \/ ExecWhileReturned
    \/ ExecForStatement
    \/ ExecForInitialized
    \/ ExecForTest
    \/ ExecForCondition
    \/ ExecForReturned
    \/ ExecForIncremented
    \/ ExecMacroDefinition
    \/ CutOff
    \/ EvalLiteral
    \/ EvalIdentifier
    \/ EvalMacroCall
    \/ EvalUnsupported
    \/ EvalOperand
    \/ EvalReflect
    \/ EvalTypeOf
    \/ EvalExpectsString
    \/ EvalString
    \/ EvalStringExecute
    \/ EvalStringReturn

(***************************************************************************)
(* The Programs handed to execute_program.  A Program built by a caller    *)
(* carries no positions: its spans are Span(0, 0).                         *)
(***************************************************************************)
NoSpan == Span(0, 0)

IntLit(n) == Literal(NoSpan, ValueInteger(n))

BoolLit(b) == Literal(NoSpan, ValueBoolean(b))

StrLit(s) == Literal(NoSpan, ValueString(s))

Var(name) == Identifier(NoSpan, name)

Let(name, value) == LetStatement(name, value, None, FALSE)

\* The longest statement sequence of Sequences.
MaxLen == 4

\* One statement of every kind whose execution needs no nested body.
FlatStatements ==
    { ExpressionStatement(Var("x")),
      Let("x", IntLit(1)),
      ReturnStatement(BoolLit(TRUE)),
      BlockStatement(<<>>),
      IfStatement(BoolLit(FALSE), Let("x", IntLit(1)), None),
      MacroDefinition("m", <<"a">>, BlockStatement(<<>>)) }

\* Every sequence of at most MaxLen of them.
Sequences ==
    { Program(s) : s \in UNION { [1..n -> FlatStatements] : n \in 0..MaxLen } }

Conditions == { BoolLit(TRUE), BoolLit(FALSE), Var("a"), IntLit(1) }

Bodies ==
    { Let("x", IntLit(1)),
      Let("a", BoolLit(FALSE)),
      ExpressionStatement(MacroCall(NoSpan, "m", <<Var("x")>>)),
      BlockStatement(<<>>),
      BlockStatement(<<Let("x", IntLit(1))>>),
      BlockStatement(<<Let("a", BoolLit(FALSE)), ExpressionStatement(Var("a")),
                       ReturnStatement(Var("x"))>>) }

\* if, while and for statements over Conditions and Bodies.
Controls ==
    UNION { { IfStatement(c, b, None),
              IfStatement(c, BlockStatement(<<>>), Some(b)),
              WhileStatement(c, b),
              ForStatement(None, Some(c), None, b),
              ForStatement(Some(Let("a", BoolLit(TRUE))), Some(c), Some(Var("a")), b) }
            : <<c, b>> \in Conditions \X Bodies }
    \cup { ForStatement(None, None, Some(Var("x")),
                        IfStatement(BoolLit(FALSE), Let("x", IntLit(1)), None)),
           ForStatement(None, None, None, Let("x", IntLit(1))),
           ForStatement(None, None, Some(Var("x")),
                        BlockStatement(<<Let("x", IntLit(1))>>)),
           WhileStatement(Var("a"), BlockStatement(<<Let("a", BoolLit(FALSE))>>)) }

\* A nested statement or a block, with and without a binding before it and
\* lookups after it.
Nested ==
    { Program(before \o <<s>> \o after) :
        <<before, s, after>> \in
            { <<>>, <<Let("a", BoolLit(TRUE))>> }
            \X (Controls \cup Bodies)
            \X { <<>>, <<ExpressionStatement(Var("x"))>>,
                 <<ExpressionStatement(Var("x")), ExpressionStatement(Var("a"))>> } }

\* Code handed to eval: empty, with one, two and three statements, with every
\* statement kind the parser builds, with an unmatched brace and with loops
\* that do not end.
Sources ==
    { "", "x", "let y = 1;", "x x x", "1 2.5 true", "a + b * c",
      "let t : int = 5", "return 1 return x", "type_of(1) reflect x eval x",
      "if true { } else x", "if false x if false x if false x",
      "macro m(a, b) { return 1 } m(1, x)",
      "for let i = true ; i ; i { let i = false }",
      "for ; ; x if false y", "{", "{ { } x" }

\* Expressions of every kind of Expression.
Operands ==
    { IntLit(1), BoolLit(TRUE), Literal(NoSpan, ValueFloat("2.5")),
      Literal(NoSpan, ValueNull), StrLit("x"), Var("x"), Var("a"),
      MacroCall(NoSpan, "m", <<Var("x"), IntLit(1)>>) }

Unsupported ==
    { PrefixOperation(NoSpan, "Minus", IntLit(1)),
      InfixOperation(NoSpan, "Plus", Var("x"), Var("a")),
      InfixOperation(NoSpan, "Plus", IntLit(1), IntLit(2)),
      Ternary(NoSpan, BoolLit(TRUE), IntLit(1), IntLit(2)),
      FunctionLiteral(NoSpan, <<"p">>, BlockStatement(<<>>)),
      Call(NoSpan, Var("m"), <<IntLit(1)>>),
      Grouped(NoSpan, IntLit(1)) }

Expressions ==
    Operands \cup Unsupported
    \cup { Reflect(NoSpan, e) : e \in Operands \cup Unsupported }
    \cup { TypeOf(NoSpan, e) : e \in Operands \cup Unsupported }
    \cup { Eval(NoSpan, e) : e \in Operands \cup Unsupported }
    \cup { Eval(NoSpan, StrLit(s)) : s \in Sources }
    \cup { Reflect(NoSpan, Eval(NoSpan, StrLit(s))) : s \in {"", "x", "{"} }
    \cup { Eval(NoSpan, Eval(NoSpan, StrLit(s))) : s \in {"", "x", "x x x"} }

\* One expression in an expression statement, a let or a return, alone, after
\* bindings, in a block, and twice with a binding between.
Evaluations ==
    UNION { { Program(<<ExpressionStatement(e)>>),
              Program(<<Let("x", IntLit(1)), Let("a", e), ReturnStatement(e)>>),
              Program(<<Let("x", IntLit(1)),
                        BlockStatement(<<Let("a", BoolLit(TRUE)),
                                         ExpressionStatement(e),
                                         ExpressionStatement(Var("a"))>>),
                        ExpressionStatement(Var("x"))>>),
              Program(<<ExpressionStatement(e), Let("x", IntLit(1)),
                        ExpressionStatement(e)>>) }
            : e \in Expressions }

\* Blocks inside a sequence that binds x: blocks that bind a name the scope
\* around them binds, that define a macro, that look names up two scopes
\* out, and blocks whose count is not balanced, inside blocks and inside an
\* if, with statements after them.
ScopedBlocks ==
    { <<MacroDefinition("m", <<>>, BlockStatement(<<>>)),
        MacroDefinition("x", <<"p">>, BlockStatement(<<>>)),
        ExpressionStatement(Var("x"))>>,
      <<Let("x", IntLit(2)),
        BlockStatement(<<Let("x", BoolLit(FALSE)), ExpressionStatement(Var("x")),
                         ExpressionStatement(Var("x"))>>),
        ExpressionStatement(Var("x"))>>,
      <<Let("a", BoolLit(TRUE)),
        BlockStatement(<<ExpressionStatement(Var("x")), ExpressionStatement(Var("a")),
                         ExpressionStatement(Var("y"))>>),
        ExpressionStatement(Var("a"))>>,
      <<BlockStatement(<<Let("x", IntLit(2))>>),
        ExpressionStatement(Var("x")), ExpressionStatement(Var("x"))>>,
      <<ExpressionStatement(Var("x")),
        BlockStatement(<<BlockStatement(<<Let("x", IntLit(2)), Let("a", IntLit(1))>>),
                         ExpressionStatement(Var("x")),
                         ExpressionStatement(Var("x"))>>),
        ExpressionStatement(Var("x"))>>,
      <<IfStatement(BoolLit(TRUE), BlockStatement(<<Let("x", IntLit(2))>>), None),
        ExpressionStatement(Var("x")), ExpressionStatement(Var("x"))>> }

Scoped ==
    { Program(<<Let("x", IntLit(1)), BlockStatement(inner)>> \o after) :
        inner \in ScopedBlocks,
        after \in { <<ExpressionStatement(Var("x"))>>,
                    <<ExpressionStatement(Var("x")), ExpressionStatement(Var("m"))>> } }

Programs == Sequences \cup Nested \cup Evaluations \cup Scoped

(***************************************************************************)
(* A run of execute_program on a new HighEnduranceRuntime.                 *)
(***************************************************************************)
Init ==
    /\ program \in Programs
    /\ stack = <<ExecFrame(1, program)>>
    /\ rts = <<HighEnduranceRuntimeNew(<<>>).runtime>>
    /\ envs = HighEnduranceRuntimeNew(<<>>).envs
    /\ ret = None
    /\ cut = FALSE
    /\ evals = {}
    /\ parser = NoParser
    /\ pstack = <<>>
    /\ ppc = "idle"
    /\ pret = None
    /\ parsed = None
    /\ lexing = Idle
    /\ passes = Idle
    /\ compiler = Idle

Next == RunNext \/ ParseNext

Spec == Init /\ [][Next]_vars

\* Every call that can take a step does take it.
FairSpec == Spec /\ WF_vars(Next)

(***************************************************************************)
(* The sources handed to the parser alone.                                 *)
(***************************************************************************)
\* The longest sequence of Words.
MaxWords == 3

Words == { "{", "}", "(", ")", "x", "if", "let", "=" }

RECURSIVE Join(_)
Join(words) ==
    IF Len(words) = 0 THEN ""
    ELSE IF Len(words) = 1 THEN words[1]
    ELSE words[1] \o " " \o Join(Tail(words))

\* Every sequence of at most MaxWords words: constructs that end early and
\* braces and parentheses that do not match are among them.
Fragments == { Join(w) : w \in UNION { [1..n -> Words] : n \in 0..MaxWords } }

\* The infix operators of read_symbol.
InfixSymbols ==
    { "+", "-", "*", "/", "%", "&", "|", "^", "<<", ">>",
      "<", ">", "<=", ">=", "==", "!=", "&&", "||" }

\* Two and three operands joined by infix operators.
InfixSources ==
    { Join(<<"a", o, "b">>) : o \in InfixSymbols }
    \cup { Join(<<"a", o[1], "b", o[2], "c">>) : o \in InfixSymbols \X InfixSymbols }

TypeNames == { "int", "float", "bool", "string", "void", "any", "Foo" }

\* let with a type annotation, with and without mut.
AnnotatedLets ==
    { Join(<<"let", "x", ":", t, "=", "5">>) : t \in TypeNames }
    \cup { Join(<<"let", "mut", "x", ":", t, "=", "5">>) : t \in TypeNames }

\* for <init> ; <cond> ; <inc> { } with each of the three parts there or not.
ForSource(has_init, has_cond, has_inc) ==
    Join(<<"for">>
         \o (IF has_init THEN <<"let", "i", "=", "1">> ELSE <<>>) \o <<";">>
         \o (IF has_cond THEN <<"c">> ELSE <<>>) \o <<";">>
         \o (IF has_inc THEN <<"n">> ELSE <<>>)
         \o <<"{", "}">>)

ForSources ==
    { ForSource(i, c, n) : i \in BOOLEAN, c \in BOOLEAN, n \in BOOLEAN }

ParseSources ==
    Sources \cup Fragments \cup InfixSources \cup AnnotatedLets \cup ForSources
    \cup { "let x = 5", "let mut x = 5" }

(***************************************************************************)
(* A run of parse_program on a new ParserService.                          *)
(***************************************************************************)
InitParse ==
    /\ \E src \in ParseSources : parser = NewParserService(NewLexerService(src))
    /\ pstack = <<ProgramFrame>>
    /\ ppc = "loop"
    /\ pret = None
    /\ parsed = None
    /\ program = Program(<<>>)
    /\ stack = <<>>
    /\ rts = <<>>
    /\ envs = <<>>
    /\ ret = None
    /\ cut = FALSE
    /\ evals = {}
    /\ lexing = Idle
    /\ passes = Idle
    /\ compiler = Idle

SpecParse == InitParse /\ [][ParseNext]_vars

\* parse_program is not suspended: a step it can take is taken.
FairSpecParse == SpecParse /\ WF_vars(ParseNext)

(***************************************************************************)
(* Properties of execute_program.                                          *)
(***************************************************************************)
\* C1: when execute_program ends its statement loop (no nested block has
\* made it return early), it has executed all N statements of the sequence
\* and the level of the Diagnostic it returns is fixed by N alone: Info for
\* N = 0, HerFatal for N not a multiple of 3, Info for any other N.
C1_BalanceRule ==
    [][ExecFinish =>
        LET N == Len(Top(stack).program.statements)
        IN  /\ Top(stack).executed_count = N
            /\ ret'.v.level = IF N = 0 THEN "Info"
                              ELSE IF N % 3 # 0 THEN "HerFatal"
                              ELSE "Info"]_vars

\* The kinds of the statements of the top-level Program.
ProgramKinds == { program.statements[i].kind : i \in 1..Len(program.statements) }

\* A sequence of four statements of four kinds has been executed and the
\* Diagnostic returned for it is HerFatal.
C1_Witness ==
    /\ stack = <<>>
    /\ ret.some
    /\ Len(program.statements) = 4
    /\ Cardinality(ProgramKinds) = 4
    /\ ret.v.level = "HerFatal"
    /\ ret.v.message = "Unbalanced execution flow: 4 statements"

\* The frames of execute_program on the call stack.
ExecFrames == { k \in 1..Len(stack) : stack[k].fn = "execute_program" }

\* C2: once a statement of a sequence has yielded Value::Error, the
\* execute_program running that sequence executes no later statement of it:
\* it stays at the end of the failing statement until it returns.
C2_ErrorIsTerminal ==
    \A k \in ExecFrames :
        stack[k].first_error # 0 =>
            /\ stack[k].i = stack[k].first_error + 1
            /\ stack[k].pc = "statement"

\* C3: after the nested execution of the body of a while or for loop has
\* returned a HerFatal or Error Diagnostic, the body of that loop is not
\* executed again.
C3_FailureStopsLoop ==
    \A k \in ExecFrames :
        stack[k].body_failed => stack[k].pc \notin {"while_body", "for_body"}

\* C4: the taken branch of an if and the body of a while or for run in a
\* scope of their own: when the nested execution returns, the bindings of the
\* scope the statement runs in are what they were when it was called.
C4_BodyScopeIsFresh ==
    (/\ \/ InExec("if_branch")
        \/ InExec("while_body")
        \/ InExec("for_body")
     /\ ret.some)
    => envs[rts[Top(stack).rt].environment].store = Top(stack).scope_before

(***************************************************************************)
(* Properties of evaluate_expression and eval_string.                      *)
(***************************************************************************)
\* The frames of the Eval arm that are inside eval_string.
EvalStringFrames ==
    { k \in 1..Len(stack) :
        /\ stack[k].fn = "evaluate_expression"
        /\ stack[k].pc \in {"parse_program", "execute_program"} }

\* C5: eval runs the code on a runtime of its own.  While eval_string runs,
\* the scope of its runtime is a root scope created after every scope of the
\* caller and empty when the run starts, and the runtimes and scopes of the
\* caller are what they were at the call; when it returns they are all that
\* is left; and two calls with the same string return the same value,
\* whatever the caller had bound.
C5_EvalIsIsolated ==
    /\ [](\A k \in EvalStringFrames :
            /\ SubSeq(rts, 1, Len(stack[k].caller.rts)) = stack[k].caller.rts
            /\ SubSeq(envs, 1, Len(stack[k].caller.envs)) = stack[k].caller.envs
            /\ stack[k].pc = "execute_program" /\ k < Len(stack) =>
                LET e == rts[stack[k + 1].rt].environment
                IN  /\ e > Len(stack[k].caller.envs)
                    /\ envs[e].outer = 0
                    /\ stack[k + 1].i = 1 /\ stack[k + 1].pc = "statement"
                           => envs[e].store = EmptyStore)
    /\ [](\A a, b \in evals : a.source = b.source => a.result = b.result)
    /\ [][EvalStringReturn =>
            /\ rts' = Top(stack).caller.rts
            /\ envs' = Top(stack).caller.envs]_vars

\* The code "x x x" has been evaluated where x is bound to 1: x was
\* undefined in it.
C5_Witness ==
    /\ stack # <<>>
    /\ get(envs, 1, "x") = Some(ValueInteger(1))
    /\ [source |-> "x x x",
        result |-> ValueString("Expression result: Error(\"Undefined variable 'x'\")")]
           \in evals

\* C6 as stated: when the run of the evaluated code ends with an Info
\* Diagnostic, eval yields a Value::String holding the last line of its
\* output.
C6_InfoYieldsLastLine ==
    [][EvalStringReturn /\ ~IsFailure(ret.v) =>
        /\ ret'.v.kind = "String"
        /\ rts[Len(rts)].output # <<>>
        /\ ret'.v.v = rts[Len(rts)].output[Len(rts[Len(rts)].output)]]_vars

\* C6, amended: when the run ends with an Info Diagnostic, eval yields a
\* Value::String holding the last line of its output if there is one and
\* Value::Null if the output is empty; when it ends with an Error or HerFatal
\* Diagnostic, eval yields Value::Error holding "Eval failed: " and the
\* message of the Diagnostic, as it does for `let y = 1;`; when the operand is
\* not a Value::String, eval yields Value::Error("eval() expects a string")
\* and no parser or runtime is built.
C6_EvalResult ==
    /\ [][EvalStringReturn =>
            LET output == rts[Len(rts)].output
            IN  ret'.v = IF ret.v.level \in {"Error", "HerFatal"}
                         THEN ValueError("Eval failed: " \o ret.v.message)
                         ELSE IF output # <<>>
                         THEN ValueString(output[Len(output)])
                         ELSE ValueNull]_vars
    /\ [](\A r \in evals :
            r.source = "let y = 1;" =>
                r.result = ValueError("Eval failed: Unbalanced execution flow: 1 statements"))
    /\ [][(/\ InEval("operand")
           /\ Top(stack).expr.kind = "Eval"
           /\ ret.some
           /\ ret.v.kind # "String")
          => /\ ret' = Some(ValueError("eval() expects a string"))
             /\ stack' = Pop(stack)
             /\ UNCHANGED <<rts, envs, evals>>
             /\ UNCHANGED ParserVars]_vars

\* Code with three statements that log nothing has been evaluated: the run
\* ended with Info and eval yielded Value::Null.
C6_Witness ==
    /\ ret = Some(ValueNull)
    /\ [source |-> "if false x if false x if false x", result |-> ValueNull] \in evals

\* Whether the evaluation of expr reaches no Eval arm: the operand of
\* Reflect and TypeOf is evaluated, the parts of any other kind are not.
RECURSIVE EvalFree(_)
EvalFree(expr) ==
    CASE expr.kind = "Eval" -> FALSE
      [] expr.kind \in {"Reflect", "TypeOf"} -> EvalFree(expr.inner)
      [] OTHER -> TRUE

\* A call of evaluate_expression is on the stack.
Evaluating == \E k \in 1..Len(stack) : stack[k].fn = "evaluate_expression"

\* A call of evaluate_expression that reaches no Eval arm is on the stack.
EvaluatingEvalFree ==
    \E k \in 1..Len(stack) :
        stack[k].fn = "evaluate_expression" /\ EvalFree(stack[k].expr)

\* C7: evaluate_expression is total: every call of it returns a Value.
C7_EveryEvaluationReturns == Evaluating ~> ~Evaluating

\* What holds of evaluate_expression: every call that reaches no Eval arm
\* returns; on a prefix operation, an infix operation, a ternary, a function
\* literal and a call expression, the step the call takes returns
\* Value::Error("Unsupported expression") and changes no scope and no output.
EvalFreeEvaluationReturns ==
    /\ EvaluatingEvalFree ~> ~EvaluatingEvalFree
    /\ [][(/\ InEval("match")
           /\ Top(stack).expr.kind \in
                  {"PrefixOperation", "InfixOperation", "Ternary", "Function", "Call"})
          => /\ ret' = Some(ValueError("Unsupported expression"))
             /\ stack' = Pop(stack)
             /\ UNCHANGED <<rts, envs>>]_vars

\* An infix operation over identifiers has been evaluated where both are
\* bound: the value is the error, the log of the runtime is empty.
UnsupportedEvaluated ==
    /\ InExec("value")
    /\ Statement.kind = "ExpressionStatement"
    /\ Statement.expr.kind = "InfixOperation"
    /\ ret = Some(ValueError("Unsupported expression"))
    /\ rts[1].output = <<>>

(***************************************************************************)
(* Properties of ParserService.                                            *)
(***************************************************************************)
\* C8: parse_program terminates on every source: it returns a Program.
C8_ParseTerminates == <>(ppc = "done")

\* The source the parser was built on.
Source == parser.lexer.source

\* The statements of the Program parse_program returned.
Parsed == parsed.v.statements

\* C9: operands joined by infix operators parse to one expression statement
\* holding one infix-operation tree; `a + b * c` parses to
\* Infix(+, a, Infix(*, b, c)).
C9_InfixTree ==
    (ppc = "done" /\ Source \in InfixSources) =>
        /\ Len(Parsed) = 1
        /\ Parsed[1].kind = "ExpressionStatement"
        /\ Parsed[1].expr.kind = "InfixOperation"
        /\ Source = "a + b * c" =>
            /\ Parsed[1].expr.op = "Plus"
            /\ Parsed[1].expr.left.kind = "Identifier"
            /\ Parsed[1].expr.left.name = "a"
            /\ Parsed[1].expr.right.kind = "InfixOperation"
            /\ Parsed[1].expr.right.op = "Asterisk"
            /\ Parsed[1].expr.right.left.name = "b"
            /\ Parsed[1].expr.right.right.name = "c"

\* The TypeAnnotation a type name stands for.
AnnotationOf(t) ==
    CASE t = "int" -> TypeAnnotation("Int")
      [] t = "float" -> TypeAnnotation("Float")
      [] t = "bool" -> TypeAnnotation("Bool")
      [] t = "string" -> TypeAnnotation("String")
      [] t = "void" -> TypeAnnotation("Void")
      [] t = "any" -> TypeAnnotation("Any")
      [] OTHER -> TypeAnnotationCustom(t)

\* C10: `let [mut] x : <type> = 5` parses to one LetStatement named x, mutable
\* iff mut is there, with the value 5 and the annotation <type> names, and to
\* no other statement.
C10_AnnotatedLet ==
    \A t \in TypeNames, mut \in BOOLEAN :
        (/\ ppc = "done"
         /\ Source = Join((IF mut THEN <<"let", "mut">> ELSE <<"let">>)
                          \o <<"x", ":", t, "=", "5">>))
        => /\ Len(Parsed) = 1
           /\ Parsed[1].kind = "LetStatement"
           /\ Parsed[1].name = "x"
           /\ Parsed[1].is_mutable = mut
           /\ Parsed[1].value.kind = "Literal"
           /\ Parsed[1].value.val = ValueInteger(5)
           /\ Parsed[1].type_annotation = Some(AnnotationOf(t))

\* C11: `for <init> ; <cond> ; <inc> <body>` parses to one ForStatement with
\* that initializer, condition, increment and body, each of the three header
\* parts absent in the node exactly when the source omits it.
C11_ForStatement ==
    \A has_init \in BOOLEAN, has_cond \in BOOLEAN, has_inc \in BOOLEAN :
        (ppc = "done" /\ Source = ForSource(has_init, has_cond, has_inc))
        => /\ Len(Parsed) = 1
           /\ Parsed[1].kind = "ForStatement"
           /\ Parsed[1].initializer.some = has_init
           /\ has_init => /\ Parsed[1].initializer.v.kind = "LetStatement"
                          /\ Parsed[1].initializer.v.name = "i"
                          /\ Parsed[1].initializer.v.value.val = ValueInteger(1)
           /\ Parsed[1].condition.some = has_cond
           /\ has_cond => /\ Parsed[1].condition.v.kind = "Identifier"
                          /\ Parsed[1].condition.v.name = "c"
           /\ Parsed[1].increment.some = has_inc
           /\ has_inc => /\ Parsed[1].increment.v.kind = "Identifier"
                         /\ Parsed[1].increment.v.name = "n"
           /\ Parsed[1].body = BlockStatement(<<>>)

(***************************************************************************)
(* Optimizer (optimizer.rs).  Value::Integer is an i64; here it has        *)
(* IntBits bits, and everything below is written for any width.  a + b,    *)
(* a - b and a * b on i64 panic when the build checks overflow (the debug  *)
(* profile) and wrap when it does not (the release profile): `checks` says *)
(* which build runs.  i64::MIN / -1 panics in every build.                 *)
(***************************************************************************)
IntBits == 4

MinInt == 0 - 2^(IntBits - 1)

MaxInt == 2^(IntBits - 1) - 1

\* The two's complement value of n in IntBits bits.
Wrap(n) == ((n - MinInt) % 2^IntBits) + MinInt

Abs(n) == IF n < 0 THEN 0 - n ELSE n

\* a / b of Rust on integers, b # 0: the quotient rounded towards zero.
TruncDiv(a, b) ==
    IF (a < 0) = (b < 0) THEN Abs(a) \div Abs(b) ELSE 0 - (Abs(a) \div Abs(b))

\* The f64 of a float text "i.f" whose fraction is a number of quarters, as
\* that number of quarters.
FloatQuarters(repr) ==
    LET negative == CharAt(repr, 1) = "-"
        text == IF negative THEN SubSeq(repr, 2, Len(repr)) ELSE repr
        d == CHOOSE i \in 1..Len(text) : CharAt(text, i) = "."
        fp == SubSeq(text, d + 1, Len(text))
        q == 4 * ParseI64(SubSeq(text, 1, d - 1))
             + (CASE fp = "25" -> 1 [] fp = "5" -> 2 [] fp = "75" -> 3 [] OTHER -> 0)
    IN  IF negative THEN 0 - q ELSE q

\* The text of the f64 that is q quarters.
QuartersFloat(q) ==
    (IF q < 0 THEN "-" ELSE "") \o IntToStr(Abs(q) \div 4) \o "."
    \o (CASE Abs(q) % 4 = 1 -> "25" [] Abs(q) % 4 = 2 -> "5"
          [] Abs(q) % 4 = 3 -> "75" [] OTHER -> "0")

\* Whether fold_constants panics on op, left and right.
FoldPanics(checks, op, left, right) ==
    /\ left.kind = "Integer"
    /\ right.kind = "Integer"
    /\ \/ /\ checks
          /\ \/ op = "Plus" /\ left.n + right.n \notin MinInt..MaxInt
             \/ op = "Minus" /\ left.n - right.n \notin MinInt..MaxInt
             \/ op = "Asterisk" /\ left.n * right.n \notin MinInt..MaxInt
       \/ op = "Slash" /\ left.n = MinInt /\ right.n = 0 - 1

\* fold_constants where it does not panic.  The float arms are exact on the
\* floats read here: quarters whose sum, product and quotient are quarters.
fold_constants(op, left, right) ==
    LET ints == left.kind = "Integer" /\ right.kind = "Integer"
        floats == left.kind = "Float" /\ right.kind = "Float"
        a == IF ints THEN left.n ELSE FloatQuarters(left.repr)
        b == IF ints THEN right.n ELSE FloatQuarters(right.repr)
    IN  CASE ints /\ op = "Plus" -> Some(ValueInteger(Wrap(a + b)))
          [] ints /\ op = "Minus" -> Some(ValueInteger(Wrap(a - b)))
          [] ints /\ op = "Asterisk" -> Some(ValueInteger(Wrap(a * b)))
          [] ints /\ op = "Slash" /\ b # 0 -> Some(ValueInteger(TruncDiv(a, b)))
          [] floats /\ op = "Plus" -> Some(ValueFloat(QuartersFloat(a + b)))
          [] floats /\ op = "Minus" -> Some(ValueFloat(QuartersFloat(a - b)))
          [] floats /\ op = "Asterisk" ->
                Some(ValueFloat(QuartersFloat((a * b) \div 4)))
          [] floats /\ op = "Slash" /\ b # 0 ->
                Some(ValueFloat(QuartersFloat(TruncDiv(4 * a, b))))
          [] (ints \/ floats) /\ op = "Eq" -> Some(ValueBoolean(a = b))
          [] (ints \/ floats) /\ op = "Neq" -> Some(ValueBoolean(a # b))
          [] (ints \/ floats) /\ op = "Less" -> Some(ValueBoolean(a < b))
          [] (ints \/ floats) /\ op = "Greater" -> Some(ValueBoolean(a > b))
          [] (ints \/ floats) /\ op = "LessEqual" -> Some(ValueBoolean(a <= b))
          [] (ints \/ floats) /\ op = "GreaterEqual" -> Some(ValueBoolean(a >= b))
          [] OTHER -> None

\* What an optimize call that panicked returns here.
Panic == [kind |-> "Panic"]

Panicked(node) == node.kind = "Panic"

RECURSIVE optimize_expression(_, _)
\* The loops over args: every argument in order, until one panics.
RECURSIVE optimize_expressions(_, _)
optimize_expressions(checks, exprs) ==
    IF exprs = <<>>
    THEN [panic |-> FALSE, items |-> <<>>]
    ELSE With([head |-> optimize_expression(checks, Head(exprs)),
               rest |-> optimize_expressions(checks, Tail(exprs))],
              LAMBDA o :
                  IF Panicked(o.head) \/ o.rest.panic
                  THEN [panic |-> TRUE, items |-> <<>>]
                  ELSE [panic |-> FALSE, items |-> <<o.head>> \o o.rest.items])

\* A variant of OptimizedInfix that folds only when the operands were
\* literals before they were optimized.
OptimizedInfixShallow(checks, expr, left, right) ==
    IF Panicked(left) \/ Panicked(right)
    THEN Panic
    ELSE IF expr.left.kind = "Literal" /\ expr.right.kind = "Literal"
    THEN IF FoldPanics(checks, expr.op, left.val, right.val)
         THEN Panic
         ELSE With(fold_constants(expr.op, left.val, right.val),
                   LAMBDA val :
                       IF val.some
                       THEN Literal(expr.span, val.v)
                       ELSE [expr EXCEPT !.left = left, !.right = right])
    ELSE [expr EXCEPT !.left = left, !.right = right]

\* The InfixOperation arm, on the optimized operands.
OptimizedInfix(checks, expr, left, right) ==
    IF Panicked(left) \/ Panicked(right)
    THEN Panic
    ELSE IF left.kind = "Literal" /\ right.kind = "Literal"
    THEN IF FoldPanics(checks, expr.op, left.val, right.val)
         THEN Panic
         ELSE With(fold_constants(expr.op, left.val, right.val),
                   LAMBDA val :
                       IF val.some
                       THEN Literal(expr.span, val.v)
                       ELSE [expr EXCEPT !.left = left, !.right = right])
    ELSE [expr EXCEPT !.left = left, !.right = right]

optimize_expression(checks, expr) ==
    CASE expr.kind = "InfixOperation" ->
            With([left |-> optimize_expression(checks, expr.left),
                  right |-> optimize_expression(checks, expr.right)],
                 LAMBDA o : OptimizedInfix(checks, expr, o.left, o.right))
      [] expr.kind = "Grouped" ->
            With(optimize_expression(checks, expr.inner),
                 LAMBDA inner :
                     IF Panicked(inner) THEN Panic
                     ELSE IF inner.kind = "Literal"
                     THEN Literal(expr.span, inner.val)
                     ELSE [expr EXCEPT !.inner = inner])
      [] expr.kind = "Ternary" ->
            With([cond |-> optimize_expression(checks, expr.condition),
                  then_expr |-> optimize_expression(checks, expr.then_branch),
                  else_expr |-> optimize_expression(checks, expr.else_branch)],
                 LAMBDA o :
                     IF \/ Panicked(o.cond)
                        \/ Panicked(o.then_expr)
                        \/ Panicked(o.else_expr)
                     THEN Panic
                     ELSE IF o.cond.kind = "Literal" /\ o.cond.val.kind = "Boolean"
                     THEN IF o.cond.val.b THEN o.then_expr ELSE o.else_expr
                     ELSE [expr EXCEPT !.condition = o.cond,
                                       !.then_branch = o.then_expr,
                                       !.else_branch = o.else_expr])
      [] expr.kind = "Call" ->
            With([func |-> optimize_expression(checks, expr.callee),
                  args |-> optimize_expressions(checks, expr.args)],
                 LAMBDA o :
                     IF Panicked(o.func) \/ o.args.panic THEN Panic
                     ELSE [expr EXCEPT !.callee = o.func, !.args = o.args.items])
      [] expr.kind \in {"Reflect", "Eval", "TypeOf"} ->
            With(optimize_expression(checks, expr.inner),
                 LAMBDA inner :
                     IF Panicked(inner) THEN Panic
                     ELSE [expr EXCEPT !.inner = inner])
      [] expr.kind = "MacroCall" ->
            With(optimize_expressions(checks, expr.args),
                 LAMBDA args :
                     IF args.panic THEN Panic
                     ELSE [expr EXCEPT !.args = args.items])
      [] OTHER -> expr

RECURSIVE optimize_statement(_, _)
\* The loops over statements: every statement in order, until one panics.
\* A variant of optimize_statements that drops the expression statements
\* left with a literal.
RECURSIVE optimize_statements_dropping(_, _)
optimize_statements_dropping(checks, statements) ==
    IF statements = <<>>
    THEN [panic |-> FALSE, items |-> <<>>]
    ELSE With([head |-> optimize_statement(checks, Head(statements)),
               rest |-> optimize_statements_dropping(checks, Tail(statements))],
              LAMBDA o :
                  IF Panicked(o.head) \/ o.rest.panic
                  THEN [panic |-> TRUE, items |-> <<>>]
                  ELSE IF /\ o.head.kind = "ExpressionStatement"
                          /\ o.head.expr.kind = "Literal"
                  THEN o.rest
                  ELSE [panic |-> FALSE, items |-> <<o.head>> \o o.rest.items])

RECURSIVE optimize_statements(_, _)
optimize_statements(checks, statements) ==
    IF statements = <<>>
    THEN [panic |-> FALSE, items |-> <<>>]
    ELSE With([head |-> optimize_statement(checks, Head(statements)),
               rest |-> optimize_statements(checks, Tail(statements))],
              LAMBDA o :
                  IF Panicked(o.head) \/ o.rest.panic
                  THEN [panic |-> TRUE, items |-> <<>>]
                  ELSE [panic |-> FALSE, items |-> <<o.head>> \o o.rest.items])

\* optimize_expression on the expression of an Option, None left as it is.
OptimizedOption(checks, option) ==
    IF option.some
    THEN With(optimize_expression(checks, option.v),
              LAMBDA expr : IF Panicked(expr) THEN Panic ELSE Some(expr))
    ELSE None

optimize_statement(checks, stmt) ==
    CASE stmt.kind \in {"ExpressionStatement", "ReturnStatement"} ->
            With(optimize_expression(checks, stmt.expr),
                 LAMBDA expr :
                     IF Panicked(expr) THEN Panic ELSE [stmt EXCEPT !.expr = expr])
      [] stmt.kind = "LetStatement" ->
            With(optimize_expression(checks, stmt.value),
                 LAMBDA value :
                     IF Panicked(value) THEN Panic
                     ELSE [stmt EXCEPT !.value = value])
      [] stmt.kind = "IfStatement" ->
            With([condition |-> optimize_expression(checks, stmt.condition),
                  then_branch |-> optimize_statement(checks, stmt.then_branch),
                  else_branch |->
                      IF stmt.else_branch.some
                      THEN optimize_statement(checks, stmt.else_branch.v)
                      ELSE stmt.then_branch],
                 LAMBDA o :
                     IF \/ Panicked(o.condition)
                        \/ Panicked(o.then_branch)
                        \/ Panicked(o.else_branch)
                     THEN Panic
                     ELSE [stmt EXCEPT
                             !.condition = o.condition,
                             !.then_branch = o.then_branch,
                             !.else_branch = IF @.some THEN Some(o.else_branch)
                                             ELSE None])
      [] stmt.kind = "BlockStatement" ->
            With(optimize_statements(checks, stmt.statements),
                 LAMBDA statements :
                     IF statements.panic THEN Panic
                     ELSE [stmt EXCEPT !.statements = statements.items])
      [] stmt.kind = "ForStatement" ->
            With([initializer |->
                      IF stmt.initializer.some
                      THEN optimize_statement(checks, stmt.initializer.v)
                      ELSE stmt.body,
                  condition |-> OptimizedOption(checks, stmt.condition),
                  increment |-> OptimizedOption(checks, stmt.increment),
                  body |-> optimize_statement(checks, stmt.body)],
                 LAMBDA o :
                     IF \/ Panicked(o.initializer)
                        \/ o.condition = Panic
                        \/ o.increment = Panic
                        \/ Panicked(o.body)
                     THEN Panic
                     ELSE [stmt EXCEPT
                             !.initializer = IF @.some THEN Some(o.initializer)
                                             ELSE None,
                             !.condition = o.condition,
                             !.increment = o.increment,
                             !.body = o.body])
      [] stmt.kind = "WhileStatement" ->
            With([condition |-> optimize_expression(checks, stmt.condition),
                  body |-> optimize_statement(checks, stmt.body)],
                 LAMBDA o :
                     IF Panicked(o.condition) \/ Panicked(o.body) THEN Panic
                     ELSE [stmt EXCEPT !.condition = o.condition, !.body = o.body])
      [] OTHER -> stmt

\* Optimizer::optimize: whether it panics, and the Program it leaves.
optimize(checks, prog) ==
    LET statements == optimize_statements(checks, prog.statements)
    IN  [panic |-> statements.panic,
         program |-> [prog EXCEPT !.statements = statements.items]]

(***************************************************************************)
(* The control-flow validator of compiler_services.rs, and the function of *)
(* the same name in ft_runtime.rs.                                         *)
(***************************************************************************)
\* A variant of is_terminal in which an if needs its then branch alone.
RECURSIVE is_terminal_then(_)
is_terminal_then(stmt) ==
    CASE stmt.kind = "ReturnStatement" -> TRUE
      [] stmt.kind = "BlockStatement" ->
            IF stmt.statements # <<>>
            THEN is_terminal_then(stmt.statements[Len(stmt.statements)])
            ELSE FALSE
      [] stmt.kind = "IfStatement" -> is_terminal_then(stmt.then_branch)
      [] OTHER -> FALSE

RECURSIVE is_terminal(_)
is_terminal(stmt) ==
    CASE stmt.kind = "ReturnStatement" -> TRUE
      [] stmt.kind = "BlockStatement" ->
            IF stmt.statements # <<>>
            THEN is_terminal(stmt.statements[Len(stmt.statements)])
            ELSE FALSE
      [] stmt.kind = "IfStatement" ->
            LET then_term == is_terminal(stmt.then_branch)
                else_term == IF stmt.else_branch.some
                             THEN is_terminal(stmt.else_branch.v)
                             ELSE FALSE
            IN  then_term /\ else_term
      [] OTHER -> FALSE

\* ends_with_return of compiler_services.rs.
ends_with_return(prog) ==
    IF prog.statements # <<>>
    THEN is_terminal(prog.statements[Len(prog.statements)])
    ELSE FALSE

\* ends_with_return of ft_runtime.rs, on a Statement.
RECURSIVE runtime_ends_with_return(_)
runtime_ends_with_return(stmt) ==
    CASE stmt.kind = "ReturnStatement" -> TRUE
      [] stmt.kind = "BlockStatement" ->
            IF stmt.statements # <<>>
            THEN runtime_ends_with_return(stmt.statements[Len(stmt.statements)])
            ELSE FALSE
      [] stmt.kind = "IfStatement" ->
            /\ runtime_ends_with_return(stmt.then_branch)
            /\ IF stmt.else_branch.some
               THEN runtime_ends_with_return(stmt.else_branch.v)
               ELSE FALSE
      [] OTHER -> FALSE

(***************************************************************************)
(* compile, lines 35-42, on a Program: Optimizer::optimize when the        *)
(* optimization level asks for it, then ends_with_return.  input is        *)
(* history: the Program as it was handed over.                             *)
(***************************************************************************)
NewPasses(prog, level, checks) ==
    [pc |-> "optimize", program |-> prog, input |-> prog,
     optimization_level |-> level, checks |-> checks, terminal |-> FALSE]

\* optimization_level is 0: Optimizer::optimize is not called.
OptimizeSkipped ==
    /\ passes.pc = "optimize"
    /\ passes.optimization_level = 0
    /\ passes' = [passes EXCEPT !.pc = "validate"]
    /\ UNCHANGED <<lexing, compiler>>
    /\ UNCHANGED ParserVars
    /\ UNCHANGED RuntimeVars

\* Optimizer::optimize(&mut program)
Optimize ==
    /\ passes.pc = "optimize"
    /\ passes.optimization_level > 0
    /\ LET optimized == optimize(passes.checks, passes.program)
       IN  passes' = IF optimized.panic
                     THEN [passes EXCEPT !.pc = "panic"]
                     ELSE [passes EXCEPT !.pc = "validate",
                                         !.program = optimized.program]
    /\ UNCHANGED <<lexing, compiler>>
    /\ UNCHANGED ParserVars
    /\ UNCHANGED RuntimeVars

\* ends_with_return(&program)
EndsWithReturn ==
    /\ passes.pc = "validate"
    /\ passes' = [passes EXCEPT !.pc = "done",
                                !.terminal = ends_with_return(passes.program)]
    /\ UNCHANGED <<lexing, compiler>>
    /\ UNCHANGED ParserVars
    /\ UNCHANGED RuntimeVars

PassesNext ==
    \/ OptimizeSkipped
    \/ Optimize
    \/ EndsWithReturn

(***************************************************************************)
(* The Programs handed to the passes.                                      *)
(***************************************************************************)
ArithmeticOps == {"Plus", "Minus", "Asterisk", "Slash"}

ComparisonOps == {"Eq", "Neq", "Less", "Greater", "LessEqual", "GreaterEqual"}

FloatLit(repr) == Literal(NoSpan, ValueFloat(repr))

Infix(op, left, right) == InfixOperation(NoSpan, op, left, right)

\* Every integer of the width.
IntLiterals == { IntLit(n) : n \in MinInt..MaxInt }

\* The integers at and next to the ends of the range, and next to zero.
EdgeLiterals == { IntLit(n) : n \in {MinInt, MinInt + 1, 0 - 1, 0, 1, MaxInt} }

FloatLiterals == { FloatLit(r) : r \in {"0.0", "0.5", "1.0", "2.0"} }

OtherLiterals == { BoolLit(TRUE), BoolLit(FALSE), StrLit("a"), StrLit("b") }

\* An operator over two literals: of one kind, of two kinds, and an operator
\* fold_constants has no arm for.
Folds ==
    { Infix(op, a, b) : op \in ArithmeticOps \cup ComparisonOps,
                        a \in IntLiterals, b \in IntLiterals }
    \cup { Infix(op, a, b) : op \in ArithmeticOps \cup ComparisonOps,
                             a \in FloatLiterals, b \in FloatLiterals }
    \cup { Infix(op, a, b) : op \in ComparisonOps \cup {"Plus"},
                             a \in OtherLiterals, b \in OtherLiterals }
    \cup { Infix(op, IntLit(1), b) : op \in {"Plus", "Eq"},
                                     b \in FloatLiterals \cup OtherLiterals }
    \cup { Infix(op, IntLit(3), IntLit(2)) : op \in {"Percent", "And", "Assign"} }

\* An operator over the result of another, on either side.
NestedFolds ==
    { Infix(outer, Infix(inner, a, b), c) :
        outer \in ArithmeticOps, inner \in ArithmeticOps,
        a \in EdgeLiterals, b \in EdgeLiterals, c \in {IntLit(0 - 1), IntLit(2)} }
    \cup { Infix(outer, a, Infix(inner, b, c)) :
        outer \in {"Slash", "Less"}, inner \in {"Minus", "Asterisk"},
        a \in EdgeLiterals, b \in EdgeLiterals, c \in {IntLit(0), IntLit(1)} }
    \cup { Infix("Plus", Var("x"), Infix("Plus", IntLit(1), IntLit(2))),
           Infix("Plus", Infix("Plus", Var("x"), IntLit(1)), IntLit(2)) }

\* The other kinds optimize_expression rewrites or walks into.
Wrapped ==
    LET inner == { IntLit(1), Var("x"), Infix("Plus", IntLit(1), IntLit(2)),
                   Infix("Plus", IntLit(MaxInt), IntLit(1)),
                   Infix("Less", IntLit(1), IntLit(2)) }
    IN  { Grouped(NoSpan, e) : e \in inner }
        \cup { Grouped(NoSpan, Grouped(NoSpan, e)) : e \in inner }
        \cup { Ternary(NoSpan, c, t, IntLit(0)) : c \in inner \cup {BoolLit(FALSE)},
                                                  t \in inner }
        \cup { Ternary(NoSpan, Ternary(NoSpan, BoolLit(TRUE), c, IntLit(0)),
                       BoolLit(TRUE), e) : c \in inner, e \in inner }
        \cup { Call(NoSpan, f, <<a, b>>) : f \in inner, a \in inner, b \in inner }
        \cup { MacroCall(NoSpan, "m", <<a, b>>) : a \in inner, b \in inner }
        \cup { Reflect(NoSpan, e) : e \in inner }
        \cup { Eval(NoSpan, e) : e \in inner }
        \cup { TypeOf(NoSpan, e) : e \in inner }
        \cup { PrefixOperation(NoSpan, "Minus", e) : e \in inner }

\* One statement of every kind with nothing nested in it.
FlowLeaves ==
    { ReturnStatement(IntLit(1)),
      ReturnStatement(Infix("Plus", IntLit(1), IntLit(2))),
      ExpressionStatement(Var("x")),
      Let("x", IntLit(1)),
      WhileStatement(BoolLit(FALSE), ReturnStatement(IntLit(1))),
      ForStatement(None, None, None, ReturnStatement(IntLit(1))),
      ForStatement(Some(Let("i", Infix("Plus", IntLit(1), IntLit(2)))),
                   Some(Infix("Less", IntLit(1), IntLit(2))),
                   Some(Infix("Plus", IntLit(MaxInt), IntLit(1))),
                   BlockStatement(<<>>)),
      MacroDefinition("m", <<"a">>, ReturnStatement(IntLit(1))),
      BlockStatement(<<>>) }

\* Blocks and ifs over the leaves.
FlowNested ==
    { BlockStatement(<<s>>) : s \in FlowLeaves }
    \cup { BlockStatement(<<s, t>>) : s \in FlowLeaves, t \in FlowLeaves }
    \cup { IfStatement(Infix("Less", IntLit(1), IntLit(2)), s, None) :
             s \in FlowLeaves }
    \cup { IfStatement(BoolLit(TRUE), s, Some(t)) : s \in FlowLeaves, t \in FlowLeaves }

\* Blocks and ifs over blocks and ifs.
FlowDeep ==
    LET inner == { BlockStatement(<<ReturnStatement(IntLit(1))>>),
                   BlockStatement(<<Let("x", IntLit(1))>>),
                   BlockStatement(<<ReturnStatement(IntLit(1)), Let("x", IntLit(1))>>),
                   IfStatement(BoolLit(TRUE), ReturnStatement(IntLit(1)), None),
                   IfStatement(BoolLit(TRUE), ReturnStatement(IntLit(1)),
                               Some(ReturnStatement(IntLit(2)))),
                   IfStatement(BoolLit(TRUE), ReturnStatement(IntLit(1)),
                               Some(Let("x", IntLit(1)))),
                   ReturnStatement(IntLit(1)) }
    IN  { BlockStatement(<<s, t>>) : s \in inner, t \in inner }
        \cup { IfStatement(BoolLit(TRUE), s, Some(t)) : s \in inner, t \in inner }
        \cup { WhileStatement(BoolLit(TRUE), s) : s \in inner }

\* Ifs with both branches whose condition folds to a Boolean literal.
FoldedIfs ==
    { IfStatement(Infix(op, IntLit(2), IntLit(1)),
                  ReturnStatement(Grouped(NoSpan, IntLit(1))),
                  Some(BlockStatement(<<ExpressionStatement(Infix("Plus", IntLit(1), IntLit(2))),
                                        ReturnStatement(IntLit(2))>>)))
        : op \in {"Less", "Greater"} }

FlowStatements == FlowLeaves \cup FlowNested \cup FlowDeep \cup FoldedIfs

PassPrograms ==
    { Program(<<>>) }
    \cup { Program(<<ExpressionStatement(e)>>) : e \in Folds \cup NestedFolds \cup Wrapped }
    \cup { Program(<<Let("x", e), ReturnStatement(e)>>) : e \in NestedFolds }
    \cup { Program(<<s>>) : s \in FlowStatements }
    \cup { Program(<<s, t>>) : s \in FlowLeaves \cup FlowDeep, t \in FlowLeaves }
    \cup { Program(<<s, t>>) : s \in FlowLeaves, t \in FlowDeep }

(***************************************************************************)
(* The passes on a Program of their own.                                   *)
(***************************************************************************)
InitPasses ==
    /\ \E prog \in PassPrograms, level \in {0, 1}, checks \in BOOLEAN :
            passes = NewPasses(prog, level, checks)
    /\ lexing = Idle
    /\ compiler = Idle
    /\ program = Program(<<>>)
    /\ stack = <<>>
    /\ rts = <<>>
    /\ envs = <<>>
    /\ ret = None
    /\ cut = FALSE
    /\ evals = {}
    /\ parser = NoParser
    /\ pstack = <<>>
    /\ ppc = "idle"
    /\ pret = None
    /\ parsed = None

SpecPasses == InitPasses /\ [][PassesNext]_vars

\* The last statement of the Program in the passes.
LastStatement == passes.program.statements[Len(passes.program.statements)]

\* What the specification calls terminal, by the depth of the statement: a
\* return; a block whose last statement is terminal; an if with an else
\* whose two branches are terminal.
RECURSIVE Terminal(_)
Terminal(stmt) ==
    \/ stmt.kind = "ReturnStatement"
    \/ /\ stmt.kind = "BlockStatement"
       /\ Len(stmt.statements) > 0
       /\ Terminal(stmt.statements[Len(stmt.statements)])
    \/ /\ stmt.kind = "IfStatement"
       /\ stmt.else_branch.some
       /\ Terminal(stmt.then_branch)
       /\ Terminal(stmt.else_branch.v)

\* C12: ends_with_return is true iff the Program is not empty and its last
\* statement is terminal; a let, an expression, a while, a for, a macro
\* definition, an empty block and an if without else are not terminal; the
\* statements before the last one do not matter.  The function of the same
\* name in ft_runtime.rs gives the same answer on the last statement.
C12_EndsWithReturn ==
    passes.pc = "done" =>
        LET statements == passes.program.statements
        IN  /\ passes.terminal = (statements # <<>> /\ Terminal(LastStatement))
            /\ statements # <<>> =>
                /\ runtime_ends_with_return(LastStatement) = passes.terminal
                /\ passes.terminal = ends_with_return(Program(<<LastStatement>>))
                /\ \/ LastStatement.kind \in
                          {"LetStatement", "ExpressionStatement", "WhileStatement",
                           "ForStatement", "MacroDefinition"}
                   \/ LastStatement = BlockStatement(<<>>)
                   \/ LastStatement.kind = "IfStatement"
                          /\ ~LastStatement.else_branch.some
                   => ~passes.terminal

\* A Program whose last statement is an if with an else, both branches
\* blocks that end with a return, after a statement that is not terminal,
\* has been found to end with a return.
C12_Witness ==
    /\ passes.pc = "done"
    /\ passes.terminal
    /\ Len(passes.program.statements) = 2
    /\ ~Terminal(passes.program.statements[1])
    /\ LastStatement.kind = "IfStatement"
    /\ LastStatement.then_branch.kind = "BlockStatement"
    /\ LastStatement.else_branch.v.kind = "BlockStatement"

(***************************************************************************)
(* analyzer_service.rs and executor_service.rs.  The texts the source      *)
(* writes in Korean are written here in ASCII; the clock readings          *)
(* (processing_time_ms, execution_time_ms, total_time_ms) are left out.    *)
(***************************************************************************)
\* str::split_whitespace().count(), counted from position i on.
RECURSIVE WordCountFrom(_, _)
WordCountFrom(s, i) ==
    IF i > Len(s)
    THEN 0
    ELSE IF IsWhitespace(CharAt(s, i))
    THEN WordCountFrom(s, i + 1)
    ELSE IF i = 1 \/ IsWhitespace(CharAt(s, i - 1))
    THEN 1 + WordCountFrom(s, i + 1)
    ELSE WordCountFrom(s, i + 1)

\* char::to_lowercase on an ASCII character.
LowerChar(c) ==
    IF \E i \in 27..52 : CharAt(AlphaChars, i) = c
    THEN CharAt(AlphaChars, (CHOOSE i \in 27..52 : CharAt(AlphaChars, i) = c) - 26)
    ELSE c

\* str::to_lowercase
RECURSIVE to_lowercase(_)
to_lowercase(s) ==
    IF s = "" THEN "" ELSE LowerChar(CharAt(s, 1)) \o to_lowercase(Tail(s))

\* str::contains
contains(s, pattern) ==
    \E i \in 1..(Len(s) - Len(pattern) + 1) :
        SubSeq(s, i, i + Len(pattern) - 1) = pattern

detect_sentiment(text) ==
    LET positive_keywords == {"hello", "success", "great", "awesome", "good"}
        negative_keywords == {"error", "fail", "panic", "bad", "crash"}
        lower == to_lowercase(text)
    IN  IF \E kw \in negative_keywords : contains(lower, kw)
        THEN "Negative"
        ELSE IF \E kw \in positive_keywords : contains(lower, kw)
        THEN "Positive"
        ELSE "Neutral"

\* calculate_readability, in tenths: word_count / 10.0, at most 1.0.
calculate_readability(word_count) ==
    IF word_count < 10 THEN word_count ELSE 10

\* analyze_text: Err on a text without a word, else the report.
analyze_text(source_code) ==
    LET word_count == WordCountFrom(source_code, 1)
    IN  IF word_count = 0
        THEN [ok |-> FALSE, e |-> "text to analyze is empty or blank"]
        ELSE [ok |-> TRUE,
              report |-> [word_count |-> word_count,
                          readability_score |-> calculate_readability(word_count),
                          detected_sentiment |-> detect_sentiment(source_code)]]

\* The last piece of str::split(' ').
RECURSIVE LastPiece(_)
LastPiece(s) ==
    IF s = "" \/ CharAt(s, Len(s)) = " "
    THEN ""
    ELSE LastPiece(SubSeq(s, 1, Len(s) - 1)) \o CharAt(s, Len(s))

generate_output(request) ==
    ">> [Code Output] Hello from the compiled code! Input data was: "
        \o (IF request.input_data.some THEN request.input_data.v ELSE "None")

execute_code(request) ==
    IF contains(request.compiled_code_reference, "error")
    THEN [status |-> "RuntimeError",
          output_log |->
              << ">> [System] Runtime environment started.",
                 ">> [Error] Segmentation Fault at instruction: "
                     \o LastPiece(request.compiled_code_reference) >>]
    ELSE [status |-> "Success",
          output_log |-> << ">> [System] Runtime environment started.",
                            generate_output(request) >>]

(***************************************************************************)
(* blockchain.rs.  The hash of DefaultHasher is an unspecified function of *)
(* the fields of a Block: a hasher is one function of a family, and its    *)
(* u64 is scaled to HashBits bits.  The timestamp is the clock's answer.   *)
(***************************************************************************)
HashBits == 12

\* The attempts of mine_proof_of_work end when nonce > 1000.
MaxNonce == 1000

Block(index, timestamp, proof_hash, prev_hash, nonce) ==
    [index |-> index, timestamp |-> timestamp, proof_hash |-> proof_hash,
     prev_hash |-> prev_hash, nonce |-> nonce]

create_genesis_block == Block(0, 0, "Genesis_Proof_Hash", "0", 0)

\* Blockchain::new
NewBlockchain == << create_genesis_block >>

HexDigits == "0123456789abcdef"

RECURSIVE LowerHex(_)
\* format!("{:x}", n): the digits of n in base 16, without leading zeros.
LowerHex(n) ==
    IF n < 16
    THEN SubSeq(HexDigits, n + 1, n + 1)
    ELSE LowerHex(n \div 16) \o SubSeq(HexDigits, (n % 16) + 1, (n % 16) + 1)

RECURSIVE HexValue(_)
\* The number a text of hexadecimal digits stands for, as the hasher reads a
\* String field.
HexValue(text) ==
    IF text = ""
    THEN 0
    ELSE 16 * HexValue(SubSeq(text, 1, Len(text) - 1))
         + (CHOOSE d \in 0..15 :
                SubSeq(HexDigits, d + 1, d + 1) = SubSeq(text, Len(text), Len(text)))

\* The hashers: each one a function of the five fields of a Block.
Hashers == { [mul |-> 1, add |-> 0], [mul |-> 5, add |-> 3] }

\* What the hasher is fed of a Block before its nonce.
Fed(block) ==
    block.index + 3 * block.timestamp + 5 * Len(block.proof_hash)
        + 7 * HexValue(block.prev_hash)

\* t.hash(&mut s); s.finish(), for a Block with the nonce.
Finish(hasher, fed, nonce) ==
    (hasher.mul * (fed + 11 * nonce) + hasher.add) % (2 ^ HashBits)

calculate_hash(hasher, block) ==
    LowerHex(Finish(hasher, Fed(block), block.nonce))

\* hash.starts_with(prefix)
starts_with(text, prefix) ==
    Len(text) >= Len(prefix) /\ SubSeq(text, 1, Len(prefix)) = prefix

\* The nonces of 0 .. MaxNonce whose hash has the target prefix: the hashes
\* of temp_block, the block with the nonce.
Mined(hasher, block) ==
    With(Fed(block),
         LAMBDA fed :
             { nonce \in 0..MaxNonce :
                   starts_with(LowerHex(Finish(hasher, fed, nonce)), "000") })

\* mine_proof_of_work: nonce goes up from 0; the loop returns the first nonce
\* whose hash has the prefix and breaks when nonce > 1000, returning that
\* nonce.
mine_proof_of_work(hasher, block) ==
    With(Mined(hasher, block),
         LAMBDA mined :
             IF mined = {}
             THEN MaxNonce + 1
             ELSE CHOOSE nonce \in mined : \A other \in mined : nonce <= other)

\* SystemTime::now(), in seconds since the epoch.
Timestamps == {1, 2}

\* add_block with an index that is the length of the chain at genesis.
add_block_same_index(hasher, chain, timestamp, proof_hash) ==
    LET prev_block == chain[Len(chain)]
        new_block == Block(1, timestamp, proof_hash,
                           calculate_hash(hasher, prev_block), 0)
    IN  Append(chain, [new_block EXCEPT
                          !.nonce = mine_proof_of_work(hasher, new_block)])

\* add_block: the chain after the push; the new Block is its last.
add_block(hasher, chain, timestamp, proof_hash) ==
    LET prev_block == chain[Len(chain)]
        new_block == Block(prev_block.index + 1, timestamp, proof_hash,
                           calculate_hash(hasher, prev_block), 0)
    IN  Append(chain, [new_block EXCEPT
                          !.nonce = mine_proof_of_work(hasher, new_block)])

\* is_chain_valid
is_chain_valid(hasher, chain) ==
    \A i \in 2..Len(chain) :
        /\ chain[i].prev_hash = calculate_hash(hasher, chain[i - 1])
        /\ starts_with(calculate_hash(hasher, chain[i]), "000")

(***************************************************************************)
(* CompilerService::compile, one step per stage.  errors, success,         *)
(* analysis_report, program, compiled_output and execution_result are the  *)
(* locals of compile; blockchain is the field of the service.  failed and  *)
(* executor_calls are history: the stages that reported a failure and the  *)
(* number of calls of execute_code.  checks tells whether the build checks *)
(* integer overflow, hasher which function DefaultHasher computes.  calls  *)
(* counts the calls of compile on the service and returned lists the       *)
(* proof_block_index of every CompileResult.                               *)
(***************************************************************************)
MaxCompiles == 2
CompileOptions(target_platform, optimization_level, emit_native) ==
    [target_platform |-> target_platform,
     optimization_level |-> optimization_level,
     emit_native |-> emit_native]

CompileRequest(source_code, options) ==
    [source_code |-> source_code, options |-> options]

\* The requests of the later calls: one that fails in analysis and in the
\* validator, one that may emit a native binary.
RepeatRequests ==
    { CompileRequest("   ", CompileOptions("linux", 0, FALSE)),
      CompileRequest("return 1", CompileOptions("linux", 1, TRUE)) }

\* CompilerService::new, and compile entered with the request.
NewCompilerService(request, checks, hasher) ==
    [pc |-> "run_analysis",
     request |-> request,
     checks |-> checks,
     hasher |-> hasher,
     calls |-> 1,
     returned |-> <<>>,
     errors |-> <<>>,
     success |-> TRUE,
     analysis_report |-> None,
     program |-> None,
     compiled_output |-> "",
     execution_result |-> None,
     blockchain |-> NewBlockchain,
     result |-> None,
     failed |-> {},
     executor_calls |-> 0]

\* success = false; errors.push(message)
Failure(c, stage, message) ==
    [c EXCEPT !.success = FALSE,
              !.errors = Append(@, message),
              !.failed = @ \cup {stage}]

\* run_analysis
run_analysis(c) ==
    LET analysis == analyze_text(c.request.source_code)
    IN  IF analysis.ok
        THEN [c EXCEPT !.analysis_report = Some(analysis.report)]
        ELSE [Failure(c, "analysis", "analysis failed: " \o analysis.e)
                EXCEPT !.analysis_report =
                    Some([word_count |-> 0, readability_score |-> 0,
                          detected_sentiment |-> "Error"])]

\* compile, lines 72-96, with the executor called whatever success is.
execute_always(c) ==
    LET exec_request ==
            [compiled_code_reference |-> c.compiled_output,
             input_data |->
                 IF c.analysis_report.v.detected_sentiment = "Positive"
                 THEN Some("Success Data")
                 ELSE None]
        result == execute_code(exec_request)
        called == [c EXCEPT !.execution_result = Some(result),
                            !.executor_calls = @ + 1]
    IN  IF result.status = "RuntimeError"
        THEN [called EXCEPT !.success = FALSE,
                            !.errors = Append(@, "error while executing: runtime error")]
        ELSE called

\* compile, lines 72-96: the executor is called when success holds, else the
\* result is Skipped.
execute(c) ==
    IF c.success
    THEN execute_always(c)
    ELSE [c EXCEPT !.execution_result =
              Some([status |-> "Skipped",
                    output_log |-> << "[Executor] not executed: compile error." >>])]

CompileRunAnalysis ==
    /\ compiler.pc = "run_analysis"
    /\ compiler' = [run_analysis(compiler) EXCEPT !.pc = "run_parsing"]
    /\ UNCHANGED <<lexing, passes>>
    /\ UNCHANGED ParserVars
    /\ UNCHANGED RuntimeVars

\* run_parsing: the lexer and the parser are built and parse_program is called.
CompileRunParsing ==
    /\ compiler.pc = "run_parsing"
    /\ compiler' = [compiler EXCEPT !.pc = "parse_program"]
    /\ parser' = NewParserService(NewLexerService(compiler.request.source_code))
    /\ pstack' = <<ProgramFrame>>
    /\ ppc' = "loop"
    /\ pret' = None
    /\ parsed' = None
    /\ UNCHANGED <<lexing, passes>>
    /\ UNCHANGED RuntimeVars

\* parse_program has returned: the Program goes to the optimizer and to
\* ends_with_return.
CompileParsed ==
    /\ compiler.pc = "parse_program"
    /\ ppc = "done"
    /\ compiler' = [compiler EXCEPT !.pc = "passes", !.program = parsed]
    /\ passes' = NewPasses(parsed.v, compiler.request.options.optimization_level,
                           compiler.checks)
    /\ parser' = NoParser
    /\ ppc' = "idle"
    /\ parsed' = None
    /\ UNCHANGED <<pstack, pret>>
    /\ UNCHANGED lexing
    /\ UNCHANGED RuntimeVars

\* compile, lines 39-42: the validator's answer.
CompileValidated ==
    /\ compiler.pc = "passes"
    /\ passes.pc = "done"
    /\ LET c == [compiler EXCEPT !.pc = "emit_native",
                                 !.program = Some(passes.program)]
       IN  compiler' =
               IF ~passes.terminal
               THEN Failure(c, "control_flow",
                            "compile failed: execution flow is not balanced (return missing or misplaced).")
               ELSE c
    /\ passes' = Idle
    /\ UNCHANGED lexing
    /\ UNCHANGED ParserVars
    /\ UNCHANGED RuntimeVars

\* compile, lines 44-70.  Whether generate_native_binary and
\* assemble_and_link succeed is up to the file system, nasm and ld.
CompileEmitNative ==
    /\ compiler.pc = "emit_native"
    /\ LET c == [compiler EXCEPT !.pc = "execute"]
       IN  IF compiler.success /\ compiler.request.options.emit_native
           THEN \/ compiler' = [c EXCEPT !.compiled_output =
                                   "native executable created: compiled.out"]
                \/ compiler' = Failure(c, "assemble_and_link", "linker failed: e")
                \/ compiler' = Failure(c, "generate_native_binary",
                                       "assembly generation failed: e")
           ELSE compiler' = c
    /\ UNCHANGED <<lexing, passes>>
    /\ UNCHANGED ParserVars
    /\ UNCHANGED RuntimeVars

CompileExecute ==
    /\ compiler.pc = "execute"
    /\ compiler' = [execute(compiler) EXCEPT !.pc = "add_block"]
    /\ UNCHANGED <<lexing, passes>>
    /\ UNCHANGED ParserVars
    /\ UNCHANGED RuntimeVars

\* compile, lines 98-116: the proof block and the CompileResult.
CompileAddBlock ==
    /\ compiler.pc = "add_block"
    /\ LET proof_hash ==
               "POCI_" \o IntToStr(Len(compiler.request.source_code))
                   \o "_" \o compiler.request.options.target_platform
                   \o "_" \o compiler.execution_result.v.status
       IN  \E timestamp \in Timestamps :
           \E chain \in { add_block(compiler.hasher, compiler.blockchain,
                                    timestamp, proof_hash) } :
               compiler' =
               [compiler EXCEPT
                   !.pc = "done",
                   !.blockchain = chain,
                   !.returned = Append(@, chain[Len(chain)].index),
                   !.result = Some(
                       [success |-> compiler.success,
                        compiled_output |-> compiler.compiled_output,
                        analysis_report |-> compiler.analysis_report.v,
                        execution_log |-> compiler.execution_result.v.output_log,
                        execution_status |-> compiler.execution_result.v.status,
                        proof_block_index |-> chain[Len(chain)].index,
                        errors |-> compiler.errors])]
    /\ UNCHANGED <<lexing, passes>>
    /\ UNCHANGED ParserVars
    /\ UNCHANGED RuntimeVars

\* compile is called again on the service: its locals are new, the chain is
\* the one the calls before have left.
CompileCall ==
    /\ compiler.pc = "done"
    /\ compiler.calls < MaxCompiles
    /\ \E request \in RepeatRequests :
           compiler' =
               [NewCompilerService(request, compiler.checks, compiler.hasher) EXCEPT
                   !.calls = compiler.calls + 1,
                   !.returned = compiler.returned,
                   !.blockchain = compiler.blockchain]
    /\ UNCHANGED <<lexing, passes>>
    /\ UNCHANGED ParserVars
    /\ UNCHANGED RuntimeVars

CompileNext ==
    \/ CompileCall
    \/ CompileRunAnalysis
    \/ CompileRunParsing
    \/ CompileParsed
    \/ CompileValidated
    \/ CompileEmitNative
    \/ CompileExecute
    \/ CompileAddBlock

\* Source code handed to compile: the texts handed to eval, blank texts,
\* texts whose last statement is terminal or not, and texts with the
\* keywords of detect_sentiment.
CompileSources ==
    Sources \cup
    { "   ", "return 1", "{ return 1 }", "x return 1", "return 1 x",
      "if true { return 1 } else { return 2 }", "if true { return 1 }",
      "if true { return 1 } else { x }", "{ { return x } }",
      "Hello return 1", "fail return 1", "good bad return x", "success",
      "7 + 1 return 1" }

CompileRequests ==
    { CompileRequest(source_code, CompileOptions("linux", level, emit_native)) :
          source_code \in CompileSources, level \in {0, 1}, emit_native \in BOOLEAN }

\* A new CompilerService, and compile called on it.
InitCompile ==
    /\ \E request \in CompileRequests, checks \in BOOLEAN, hasher \in Hashers :
           compiler = NewCompilerService(request, checks, hasher)
    /\ parser = NoParser
    /\ pstack = <<>>
    /\ ppc = "idle"
    /\ pret = None
    /\ parsed = None
    /\ program = Program(<<>>)
    /\ stack = <<>>
    /\ rts = <<>>
    /\ envs = <<>>
    /\ ret = None
    /\ cut = FALSE
    /\ evals = {}
    /\ lexing = Idle
    /\ passes = Idle

NextCompile == CompileNext \/ ParseNext \/ PassesNext

SpecCompile == InitCompile /\ [][NextCompile]_vars

(***************************************************************************)
(* C13                                                                     *)
(***************************************************************************)
\* Whether message starts with prefix.
StartsWith(message, prefix) ==
    Len(message) >= Len(prefix) /\ SubSeq(message, 1, Len(prefix)) = prefix

\* The stages before execution and the head of the message each one pushes.
StageMessage ==
    [analysis |-> "analysis failed: ",
     control_flow |-> "compile failed: ",
     generate_native_binary |-> "assembly generation failed: ",
     assemble_and_link |-> "linker failed: "]

\* The stages that must have failed on the request, read off the source code
\* and the Program: analysis on a text without a word, the validator on a
\* Program whose last statement is not terminal.
MustFail ==
    (IF WordCountFrom(compiler.request.source_code, 1) = 0
     THEN {"analysis"} ELSE {})
    \cup
    (IF LET statements == compiler.program.v.statements
        IN  statements = <<>> \/ ~Terminal(statements[Len(statements)])
     THEN {"control_flow"} ELSE {})

\* C13: when compile returns and a stage before execution has failed
\* (analysis, the control-flow validator, native emission), the result has
\* success = false, errors holds one message for every failed stage, the
\* executor was never called and execution_status is Skipped; the executor
\* is called only when no earlier stage failed.
C13_FailedCompileSkipsExecution ==
    /\ compiler.executor_calls > 0 => compiler.failed = {}
    /\ compiler.pc = "done" =>
        /\ MustFail \subseteq compiler.failed
        /\ compiler.failed \ MustFail
               \subseteq {"generate_native_binary", "assemble_and_link"}
        /\ compiler.failed # {} =>
            /\ ~compiler.result.v.success
            /\ Len(compiler.result.v.errors) = Cardinality(compiler.failed)
            /\ \A stage \in compiler.failed :
                   \E i \in 1..Len(compiler.result.v.errors) :
                       StartsWith(compiler.result.v.errors[i], StageMessage[stage])
            /\ compiler.executor_calls = 0
            /\ compiler.result.v.execution_status = "Skipped"
        /\ compiler.failed = {} =>
            /\ compiler.executor_calls = 1
            /\ compiler.result.v.execution_status # "Skipped"

\* compile has returned on a blank text: analysis and the validator have
\* both failed, there are two messages and the execution was skipped.
C13_Witness ==
    /\ compiler.pc = "done"
    /\ compiler.failed = {"analysis", "control_flow"}
    /\ Len(compiler.result.v.errors) = 2
    /\ compiler.result.v.execution_status = "Skipped"

(***************************************************************************)
(* C24                                                                     *)
(***************************************************************************)
\* The chain of the service c holds one block for every call of compile that
\* has returned, after the genesis block, with the indices in order, and
\* the calls have returned their own numbers.
OneBlockPerCall(c) ==
    /\ Len(c.returned) = (IF c.pc = "done" THEN c.calls ELSE c.calls - 1)
    /\ Len(c.blockchain) = Len(c.returned) + 1
    /\ \A i \in 1..Len(c.blockchain) : c.blockchain[i].index = i - 1
    /\ \A n \in 1..Len(c.returned) : c.returned[n] = n

\* C24: every call of compile, whether it succeeds or fails at any stage,
\* appends exactly one block to the chain and never changes or removes an
\* earlier block: after n calls on one CompilerService the chain holds n + 1
\* blocks with the indices 0..n in order, and the n-th call returns
\* proof_block_index = n.
C24_OneBlockPerCompile ==
    [][/\ OneBlockPerCall(compiler)
       /\ OneBlockPerCall(compiler')
       /\ Len(compiler'.blockchain) >= Len(compiler.blockchain)
       /\ SubSeq(compiler'.blockchain, 1, Len(compiler.blockchain))
              = compiler.blockchain
       /\ compiler'.blockchain # compiler.blockchain
              <=> compiler.pc = "add_block"]_vars

\* Two calls have returned, the first one failed before the execution and
\* the second one succeeded: the chain holds the genesis block and one block
\* for each.
C24_Witness ==
    /\ compiler.pc = "done"
    /\ compiler.calls = 2
    /\ compiler.returned = <<1, 2>>
    /\ compiler.result.v.proof_block_index = 2
    /\ Len(compiler.blockchain) = 3
    /\ compiler.blockchain[1] = create_genesis_block
    /\ compiler.blockchain[2].proof_hash = "POCI_3_linux_Skipped"
    /\ compiler.blockchain[3].proof_hash = "POCI_8_linux_Success"

(***************************************************************************)
(* C14, C15, C16: Optimizer::optimize on one infix node over two literals. *)
(***************************************************************************)
\* The Program whose only statement is the expression.
OneExpression(expr) == Program(<<ExpressionStatement(expr)>>)

\* Optimizer::optimize has been called on the Program handed over.
OptimizeCalled == passes.optimization_level > 0 /\ passes.pc # "optimize"

\* Optimizer::optimize has returned.
OptimizeReturned == OptimizeCalled /\ passes.pc # "panic"

\* q is the quotient of a by b, rounded toward zero.
IsQuotient(q, a, b) ==
    \E r \in (0 - Abs(b))..Abs(b) :
        /\ a = q * b + r
        /\ Abs(r) < Abs(b)
        /\ r = 0 \/ (r > 0) = (a > 0)

\* C14: for all integer literals a and b with b # 0, optimize replaces the
\* infix node a / b by the integer literal of the integer division of a by
\* b; for every a, the node a / 0 is left an infix node with its two
\* literal operands.
C14_DivisionFolds ==
    \A a \in MinInt..MaxInt, b \in MinInt..MaxInt :
        ( /\ OptimizeCalled
          /\ passes.input = OneExpression(Infix("Slash", IntLit(a), IntLit(b))) )
        => /\ OptimizeReturned
           /\ LET expr == passes.program.statements[1].expr
              IN  IF b = 0
                  THEN expr = Infix("Slash", IntLit(a), IntLit(0))
                  ELSE /\ expr.kind = "Literal"
                       /\ expr.val.kind = "Integer"
                       /\ IsQuotient(expr.val.n, a, b)

\* What a literal value is compared by.
Compared(val) ==
    CASE val.kind = "Integer" -> val.n
      [] val.kind = "Float" -> FloatQuarters(val.repr)
      [] val.kind = "Boolean" -> val.b
      [] val.kind = "String" -> val.v

\* The comparison op of two values of one kind.
Comparison(op, left, right) ==
    CASE op = "Eq" -> Compared(left) = Compared(right)
      [] op = "Neq" -> Compared(left) # Compared(right)
      [] op = "Less" -> Compared(left) < Compared(right)
      [] op = "Greater" -> Compared(left) > Compared(right)
      [] op = "LessEqual" -> Compared(left) <= Compared(right)
      [] op = "GreaterEqual" -> Compared(left) >= Compared(right)

\* The comparison op is defined on the kind: equality on integers, floats,
\* booleans and strings, order on integers and floats.
ComparisonDefined(op, kind) ==
    \/ op \in ComparisonOps /\ kind \in {"Integer", "Float"}
    \/ op \in {"Eq", "Neq"} /\ kind \in {"Boolean", "String"}

\* C15: an infix node whose operator is one of ==, !=, <, >, <=, >= and
\* whose operands are literals of the same kind is replaced by the Boolean
\* literal of the comparison, for every literal kind the comparison is
\* defined on (equality over integer, float, boolean and string literals).
C15_ComparisonFolds ==
    ( /\ OptimizeCalled
      /\ Len(passes.input.statements) = 1
      /\ passes.input.statements[1].kind = "ExpressionStatement"
      /\ LET node == passes.input.statements[1].expr
         IN  /\ node.kind = "InfixOperation"
             /\ node.op \in ComparisonOps
             /\ node.left.kind = "Literal"
             /\ node.right.kind = "Literal"
             /\ node.left.val.kind = node.right.val.kind
             /\ ComparisonDefined(node.op, node.left.val.kind) )
    => /\ OptimizeReturned
       /\ LET node == passes.input.statements[1].expr
              expr == passes.program.statements[1].expr
          IN  /\ expr.kind = "Literal"
              /\ expr.val.kind = "Boolean"
              /\ expr.val.b = Comparison(node.op, node.left.val, node.right.val)

\* C16: constant folding never fails at host level: for every pair of
\* integer literals a, b and every operator among +, -, * and /, optimize
\* on the infix node returns, with a literal or with the unfolded node, also
\* when the exact result is outside the signed range.
C16_FoldingReturns ==
    \A op \in ArithmeticOps, a \in MinInt..MaxInt, b \in MinInt..MaxInt :
        ( /\ OptimizeCalled
          /\ passes.input = OneExpression(Infix(op, IntLit(a), IntLit(b))) )
        => /\ OptimizeReturned
           /\ LET expr == passes.program.statements[1].expr
              IN  \/ expr.kind = "Literal"
                  \/ expr = Infix(op, IntLit(a), IntLit(b))

(***************************************************************************)
(* A LexerService of its own: LexerService::new, one step per pass of the  *)
(* loop of tokenize, and then calls of next_token.  lexing.lexer is the    *)
(* LexerService, lexing.tokens the local of tokenize, lexing.served the    *)
(* tokens next_token has returned so far (history).                        *)
(***************************************************************************)
\* Calls of next_token after the stored tokens are exhausted.
MaxExtraCalls == 2

\* LexerService::new up to the call of tokenize.
NewLexing(src) ==
    [pc |-> "tokenize",
     lexer |-> [source |-> src, position |-> 0, tokens |-> <<>>, index |-> 0],
     tokens |-> <<>>,
     served |-> <<>>]

\* One pass of the loop of tokenize (lines 40-56): whitespace is skipped and
\* one token is read; at the end of the source the pass breaks.
TokenizePass ==
    /\ lexing.pc = "tokenize"
    /\ HasPeek(lexing.lexer.source, lexing.lexer.position)
    /\ LET src == lexing.lexer.source
           start == skip_whitespace(src, lexing.lexer.position)
           c == Peek(src, start)
           token == IF IsAlphabetic(c) \/ c = "_"
                    THEN read_identifier_or_keyword(src, start)
                    ELSE IF IsDigit(c)
                    THEN read_number(src, start)
                    ELSE read_symbol(src, start, c)
       IN  lexing' = IF ~HasPeek(src, start)
                     THEN [lexing EXCEPT !.lexer.position = start]
                     ELSE [lexing EXCEPT !.lexer.position = token.span.end,
                                         !.tokens = Append(@, token)]
    /\ UNCHANGED <<passes, compiler>>
    /\ UNCHANGED ParserVars
    /\ UNCHANGED RuntimeVars

\* The end of tokenize (lines 58-63) and of LexerService::new (line 20).
TokenizeEnd ==
    /\ lexing.pc = "tokenize"
    /\ ~HasPeek(lexing.lexer.source, lexing.lexer.position)
    /\ lexing' = [lexing EXCEPT
                    !.pc = "ready",
                    !.lexer.tokens =
                        Append(lexing.tokens, EofToken(lexing.lexer.position))]
    /\ UNCHANGED <<passes, compiler>>
    /\ UNCHANGED ParserVars
    /\ UNCHANGED RuntimeVars

\* A call of next_token.
NextToken ==
    /\ lexing.pc = "ready"
    /\ Len(lexing.served) < Len(lexing.lexer.tokens) + MaxExtraCalls
    /\ LET call == next_token(lexing.lexer)
       IN  lexing' = [lexing EXCEPT !.lexer = call.lexer,
                                    !.served = Append(@, call.token)]
    /\ UNCHANGED <<passes, compiler>>
    /\ UNCHANGED ParserVars
    /\ UNCHANGED RuntimeVars

LexNext ==
    \/ TokenizePass
    \/ TokenizeEnd
    \/ NextToken

\* Texts for the lexer: the texts handed to the parser, numbers with no, one
\* and several dots, every symbol of read_symbol, characters no rule
\* matches, and whitespace at every place.
LexSources ==
    ParseSources \cup
    { "let x = 5 + 10;", " ", "  x", "x  ", "a  b", "a  b ", "a\tb\nc",
      "12", "1.5", "3.", "1.2.3", "1..2", "1.2.3.4", "7.x", "x.7", ".5", "1 . 2",
      "== != <= >= << >> && || += -=", "= + - ! & | < >",
      "* / % ^ ? : { } ( ) [ ] , ; .", "<<= >>= === !== &&& |||",
      "@", "a @ b", "$$", "x#y", "1@2", "~ let", "a_b _x x_ _", "truex true1 iff",
      "fn mut while match async await float bool string void any" }

InitLex ==
    /\ \E src \in LexSources : lexing = NewLexing(src)
    /\ passes = Idle
    /\ compiler = Idle
    /\ program = Program(<<>>)
    /\ stack = <<>>
    /\ rts = <<>>
    /\ envs = <<>>
    /\ ret = None
    /\ cut = FALSE
    /\ evals = {}
    /\ parser = NoParser
    /\ pstack = <<>>
    /\ ppc = "idle"
    /\ pret = None
    /\ parsed = None

SpecLex == InitLex /\ [][LexNext]_vars

\* LexerService::new is not suspended: a pass of tokenize that can be taken
\* is taken.
FairSpecLex == SpecLex /\ WF_vars(TokenizePass \/ TokenizeEnd)

\* The construction has returned a LexerService.
Constructed == lexing.pc = "ready"

\* The step machine and the function tokenize agree.
TokenizeAgrees ==
    Constructed =>
        /\ lexing.lexer.tokens = tokenize(lexing.lexer.source).tokens
        /\ lexing.lexer.position = tokenize(lexing.lexer.source).position

(***************************************************************************)
(* C17 .. C20                                                              *)
(***************************************************************************)
\* The text of the source a span covers.
Lexeme(span) == SubSeq(lexing.lexer.source, span.start + 1, span.end)

\* The text between the end of one span and the start of the next.
Between(from, to) == SubSeq(lexing.lexer.source, from + 1, to)

Blank(text) == \A i \in 1..Len(text) : IsWhitespace(CharAt(text, i))

\* C17: LexerService tokenizes the whole source once, at construction, into
\* an ordered sequence: the lexemes in source order with the whitespace
\* between them skipped, then exactly one Eof token, and no Eof before the
\* end; calls of next_token leave the sequence as it is.  `let x = 5 + 10;`
\* yields Let, Identifier("x"), Assign, IntegerLiteral(5), Plus,
\* IntegerLiteral(10), Semicolon, Eof.
C17_TokenizedOnce ==
    /\ lexing.pc = "tokenize" => lexing.served = <<>>
    /\ Constructed =>
        LET tokens == lexing.lexer.tokens
            count == Len(tokens)
        IN  /\ count >= 1
            /\ tokens[count] = EofToken(Len(lexing.lexer.source))
            /\ \A i \in 1..(count - 1) :
                /\ tokens[i].kind # "Eof"
                /\ tokens[i].span.start < tokens[i].span.end
                /\ ~IsWhitespace(CharAt(Lexeme(tokens[i].span), 1))
                /\ Blank(Between(IF i = 1 THEN 0 ELSE tokens[i - 1].span.end,
                                 tokens[i].span.start))
                /\ tokens[i].kind = "Identifier" =>
                       tokens[i].name = Lexeme(tokens[i].span)
                /\ tokens[i].kind = "FloatLiteral" =>
                       tokens[i].text = Lexeme(tokens[i].span)
            /\ Blank(Between(IF count = 1 THEN 0 ELSE tokens[count - 1].span.end,
                             tokens[count].span.start))
            /\ tokens = tokenize(lexing.lexer.source).tokens
            /\ lexing.lexer.source = "let x = 5 + 10;" =>
                   tokens = << Token("Let", 0, 3),
                               [kind |-> "Identifier", name |-> "x",
                                span |-> Span(4, 5)],
                               Token("Assign", 6, 7),
                               [kind |-> "IntegerLiteral", value |-> 5,
                                span |-> Span(8, 9)],
                               Token("Plus", 10, 11),
                               [kind |-> "IntegerLiteral", value |-> 10,
                                span |-> Span(12, 14)],
                               Token("Semicolon", 14, 15),
                               EofToken(15) >>

\* `let x = 5 + 10;` has been tokenized and every stored token served, two
\* calls of next_token beyond them included.
C17_Witness ==
    /\ Constructed
    /\ lexing.lexer.source = "let x = 5 + 10;"
    /\ Len(lexing.lexer.tokens) = 8
    /\ Len(lexing.served) = 10

\* The smaller of two numbers.
Min(a, b) == IF a < b THEN a ELSE b

\* C18: next_token serves the stored tokens in order, each exactly once;
\* once they are exhausted every further call returns an Eof token whose
\* span starts and ends at the final source offset, and the cursor index
\* never moves past the length of the sequence.
C18_ServedInOrder ==
    Constructed =>
        LET tokens == lexing.lexer.tokens
            served == lexing.served
        IN  /\ lexing.lexer.index = Min(Len(served), Len(tokens))
            /\ lexing.lexer.index <= Len(tokens)
            /\ \A i \in 1..Len(served) :
                   served[i] = IF i <= Len(tokens)
                               THEN tokens[i]
                               ELSE EofToken(Len(lexing.lexer.source))

\* next_token has been called twice after the three stored tokens of a
\* source that ends in whitespace were served.
C18_Witness ==
    /\ Constructed
    /\ lexing.lexer.source = "a  b "
    /\ Len(lexing.lexer.tokens) = 3
    /\ Len(lexing.served) = 5
    /\ lexing.served[5] = EofToken(5)

\* The number of dots in a text.
RECURSIVE Dots(_)
Dots(text) ==
    IF text = "" THEN 0
    ELSE (IF CharAt(text, 1) = "." THEN 1 ELSE 0) + Dots(Tail(text))

\* C19: every number token is a maximal run of digits with at most one `.`
\* in it: a second `.` met while reading a number ends the token and is not
\* part of it; the token is a float literal iff it contains a `.`, else an
\* integer literal.
C19_NumberHasOneDot ==
    Constructed =>
        \A i \in 1..Len(lexing.lexer.tokens) :
            LET token == lexing.lexer.tokens[i]
                text == Lexeme(token.span)
                after == token.span.end
            IN  token.kind \in {"IntegerLiteral", "FloatLiteral"} =>
                    /\ \A k \in 1..Len(text) :
                           IsDigit(CharAt(text, k)) \/ CharAt(text, k) = "."
                    /\ Dots(text) <= 1
                    /\ (token.kind = "FloatLiteral") = (Dots(text) = 1)
                    /\ HasPeek(lexing.lexer.source, after) =>
                           /\ ~IsDigit(Peek(lexing.lexer.source, after))
                           /\ Peek(lexing.lexer.source, after) = "." =>
                                  Dots(text) = 1

\* The characters read_symbol has an arm for.
SymbolChars == "=+-*/%!&|^<>?:{}()[],;."

\* No rule of tokenize matches the character: it is not whitespace, not a
\* letter or underscore, not a digit and not a symbol of read_symbol.
Unmatched(c) ==
    /\ ~IsWhitespace(c)
    /\ ~IsAlphabetic(c)
    /\ c # "_"
    /\ ~IsDigit(c)
    /\ \A k \in 1..Len(SymbolChars) : CharAt(SymbolChars, k) # c

\* The stored tokens, Eof aside, whose span covers the character at offset p.
Covering(p) ==
    { i \in 1..Len(lexing.lexer.tokens) :
          /\ lexing.lexer.tokens[i].span.start <= p
          /\ p < lexing.lexer.tokens[i].span.end }

\* C20: tokenization terminates on every source and an unrecognised
\* character does not abort it: each pass of the tokenize loop consumes at
\* least one character, every character no rule matches yields one
\* Illegal(char) token for exactly that character, the characters after it
\* are still tokenized, and so every non-whitespace character of the source
\* lies in the span of exactly one token.
C20_TokenizeTerminates ==
    /\ <>Constructed
    /\ [][lexing.pc = "tokenize" /\ lexing'.pc = "tokenize"
              => lexing'.lexer.position > lexing.lexer.position]_vars
    /\ [](Constructed =>
            \A p \in 0..(Len(lexing.lexer.source) - 1) :
                LET c == Peek(lexing.lexer.source, p)
                IN  /\ ~IsWhitespace(c) => Cardinality(Covering(p)) = 1
                    /\ IsWhitespace(c) => Covering(p) = {}
                    /\ Unmatched(c) =>
                           \A i \in Covering(p) :
                               /\ lexing.lexer.tokens[i].kind = "Illegal"
                               /\ lexing.lexer.tokens[i].ch = c
                               /\ lexing.lexer.tokens[i].span = Span(p, p + 1))

\* A source with a character no rule matches between two identifiers has
\* been tokenized: the identifier after it is among the tokens.
C20_Witness ==
    /\ Constructed
    /\ lexing.lexer.source = "a @ b"
    /\ Len(lexing.lexer.tokens) = 4
    /\ lexing.lexer.tokens[2].kind = "Illegal"
    /\ lexing.lexer.tokens[3].kind = "Identifier"

(***************************************************************************)
(* C21 .. C23, C26 .. C28: scopes, returns, blocks and loops at run time.  *)
(***************************************************************************)
\* The names the programs bind or look up.
Names == {"x", "a", "m", "y", "i", "t"}

\* The frames of execute_program that wait for the block_rt of their
\* BlockStatement.
BlockCallers ==
    { k \in 1..Len(stack) :
          stack[k].fn = "execute_program" /\ stack[k].pc = "block" }

\* The scope of the runtime of frame k.
ScopeOf(k) == rts[stack[k].rt].environment

\* C21: executing a BlockStatement never changes the enclosing scope: from
\* the call of block_rt.execute_program to its return, every step leaves
\* the result of a lookup of every name in the enclosing scope as it was,
\* also when the block binds a name the enclosing scope binds and when it
\* defines a macro.
C21_BlockKeepsEnclosingScope ==
    [][\A k \in BlockCallers :
           /\ envs'[ScopeOf(k)] = envs[ScopeOf(k)]
           /\ \A name \in Names :
                  get(envs', ScopeOf(k), name) = get(envs, ScopeOf(k), name)]_vars

\* A block that defines the macro x, a name bound to 1 around it, has
\* returned: the lookup of x after it has yielded 1.
C21_Witness ==
    /\ stack = <<>>
    /\ ret.some
    /\ program = Program(<<Let("x", IntLit(1)),
                           BlockStatement(<<MacroDefinition("m", <<>>, BlockStatement(<<>>)),
                                            MacroDefinition("x", <<"p">>,
                                                            BlockStatement(<<>>)),
                                            ExpressionStatement(Var("x"))>>),
                           ExpressionStatement(Var("x"))>>)
    /\ rts[1].output = << "Variable 'x' bound",
                          "Entering block scope.",
                          "Macro 'm' defined with 0 parameter(s)",
                          "Macro 'x' defined with 1 parameter(s)",
                          "Expression result: Macro(\"x\")",
                          "Expression result: Integer(1)" >>

\* The scopes of the chain that starts at e, from e outward.
RECURSIVE ScopeChain(_)
ScopeChain(e) ==
    IF envs[e].outer = 0 THEN <<e>> ELSE <<e>> \o ScopeChain(envs[e].outer)

\* The value of the identifier `name` in the scope e: the binding of the
\* first scope of the chain that binds it, else the Undefined variable error.
NearestBinding(e, name) ==
    LET chain == ScopeChain(e)
        binding == { i \in 1..Len(chain) : name \in DOMAIN envs[chain[i]].store }
    IN  IF binding = {}
        THEN ValueError("Undefined variable '" \o name \o "'")
        ELSE LET nearest == CHOOSE i \in binding : \A j \in binding : i <= j
             IN  envs[chain[nearest]].store[name]

\* evaluate_expression is at its match on an Identifier.
AtIdentifier == InEval("match") /\ Top(stack).expr.kind = "Identifier"

\* C22: the lookup of a name yields the value bound in the nearest scope of
\* the chain, from the current scope outward, that binds it, so an inner
\* binding shadows an outer one; when no scope of the chain binds it the
\* identifier evaluates to Error("Undefined variable '<name>'").
C22_NearestScopeWins ==
    [][AtIdentifier =>
           /\ ret' = Some(NearestBinding(ScopeOf(Len(stack)), Top(stack).expr.name))
           /\ stack' = Pop(stack)
           /\ envs' = envs]_vars

\* Inside a block inside a block, x is bound to 1, to 2 and to false from
\* the outermost scope inward: the lookup of x in the innermost scope has
\* yielded false.
C22_Witness ==
    /\ ret = Some(ValueBoolean(FALSE))
    /\ InExec("value")
    /\ Statement = ExpressionStatement(Var("x"))
    /\ LET chain == ScopeChain(ScopeOf(Len(stack)))
       IN  /\ Len(chain) = 3
           /\ envs[chain[1]].store["x"] = ValueBoolean(FALSE)
           /\ envs[chain[2]].store["x"] = ValueInteger(2)
           /\ envs[chain[3]].store["x"] = ValueInteger(1)

\* The frames of execute_program at the head of their statement loop.
LoopHeads ==
    { k \in 1..Len(stack) :
          stack[k].fn = "execute_program" /\ stack[k].pc = "statement" }

\* C23: a return statement does not end the sequence it is in:
\* execute_program logs the returned value, counts the statement and goes on
\* with the statement after it, so every statement of the sequence before
\* the one the loop is at has been counted and the final diagnostic counts
\* the statements after a return as well.
C23_ReturnDoesNotEndSequence ==
    [][/\ \A k \in LoopHeads : stack[k].executed_count = stack[k].i - 1
       /\ ( /\ InExec("value")
            /\ ret.some
            /\ Statement.kind = "ReturnStatement" )
          => /\ Len(stack') = Len(stack)
             /\ Top(stack').pc = "statement"
             /\ Top(stack').i = Top(stack).i + 1
             /\ Top(stack').executed_count = Top(stack).executed_count + 1
             /\ rts'[Top(stack).rt].output =
                    Append(rts[Top(stack).rt].output,
                           "Return value: " \o DebugValue(ret.v))
       /\ ( /\ InExec("statement")
            /\ ~ret.some
            /\ Top(stack).i > Len(Top(stack).program.statements) )
          => /\ ret'.some
             /\ ret'.v.message \in
                    { "Unbalanced execution flow: "
                          \o IntToStr(Len(Top(stack).program.statements))
                          \o " statements",
                      "Executed " \o IntToStr(Len(Top(stack).program.statements))
                          \o " statements successfully." }]_vars

\* A sequence of a return, a let and a lookup has run to its end: the value
\* was logged, the two statements after the return were executed and the
\* diagnostic counts three statements.
C23_Witness ==
    /\ stack = <<>>
    /\ ret.some
    /\ program = Program(<<ReturnStatement(BoolLit(TRUE)), Let("x", IntLit(1)),
                           ExpressionStatement(Var("x"))>>)
    /\ rts[1].output = << "Return value: Boolean(true)",
                          "Variable 'x' bound",
                          "Expression result: Integer(1)" >>
    /\ ret.v.message = "Executed 3 statements successfully."

(***************************************************************************)
(* A Blockchain on its own: add_block and is_chain_valid called in any     *)
(* order.  valid is what the last call of is_chain_valid returned on the   *)
(* chain as it is.                                                         *)
(***************************************************************************)
MaxBlocks == 2

\* Texts handed to add_block.
ProofHashes == { "POCI_3_linux_Skipped", "POCI_8_linux_Success", "" }

ChainAddBlock ==
    /\ compiler.pc = "chain"
    /\ Len(compiler.blockchain) <= MaxBlocks
    /\ \E proof_hash \in ProofHashes, timestamp \in Timestamps :
           compiler' = [compiler EXCEPT
                           !.blockchain = add_block(compiler.hasher, @,
                                                    timestamp, proof_hash),
                           !.valid = None]
    /\ UNCHANGED <<lexing, passes>>
    /\ UNCHANGED ParserVars
    /\ UNCHANGED RuntimeVars

ChainIsValid ==
    /\ compiler.pc = "chain"
    /\ compiler' = [compiler EXCEPT
                       !.valid = Some(is_chain_valid(compiler.hasher,
                                                     compiler.blockchain))]
    /\ UNCHANGED <<lexing, passes>>
    /\ UNCHANGED ParserVars
    /\ UNCHANGED RuntimeVars

\* Blockchain::new
InitChain ==
    /\ \E hasher \in Hashers :
           compiler = [pc |-> "chain", hasher |-> hasher,
                       blockchain |-> NewBlockchain, valid |-> None]
    /\ parser = NoParser
    /\ pstack = <<>>
    /\ ppc = "idle"
    /\ pret = None
    /\ parsed = None
    /\ program = Program(<<>>)
    /\ stack = <<>>
    /\ rts = <<>>
    /\ envs = <<>>
    /\ ret = None
    /\ cut = FALSE
    /\ evals = {}
    /\ lexing = Idle
    /\ passes = Idle

NextChain == ChainAddBlock \/ ChainIsValid

SpecChain == InitChain /\ [][NextChain]_vars

InBlockProgram ==
    /\ Len(stack) >= 2
    /\ stack[Len(stack) - 1].fn = "execute_program"
    /\ stack[Len(stack) - 1].pc = "block"

\* C26: when the nested execution of a BlockStatement returns a Fatal or
\* Error diagnostic, the enclosing execute_program returns that same
\* diagnostic at once and executes no later statement of its sequence, so
\* the diagnostic goes outward through every enclosing block; and the
\* execution of a block whose own statement count is non-zero and not a
\* multiple of 3 that reaches the end of its statements returns such a
\* diagnostic, with its own count in the message.
C26_BlockFailurePropagates ==
    [][/\ ( /\ InExec("block")
            /\ ret.some
            /\ IsFailure(ret.v) )
          => /\ stack' = Pop(stack)
             /\ ret' = ret
             /\ rts'[Top(stack).rt].output =
                    rts[Top(stack).rt].output \o rts[Len(rts)].output
       /\ ( /\ InBlockProgram
            /\ InExec("statement")
            /\ ~ret.some
            /\ Top(stack).i > Len(Top(stack).program.statements)
            /\ Len(Top(stack).program.statements) % 3 # 0 )
          => /\ stack' = Pop(stack)
             /\ ret'.some
             /\ IsFailure(ret'.v)
             /\ ret'.v.message =
                    "Unbalanced execution flow: "
                        \o IntToStr(Len(Top(stack).program.statements))
                        \o " statements"]_vars

\* A block of two statements inside a block of three inside a block of three
\* has failed: the program has returned the diagnostic of the innermost
\* block, and none of the statements after any of the blocks was executed.
C26_Witness ==
    /\ stack = <<>>
    /\ ret.some
    /\ program = Program(<<Let("x", IntLit(1)),
                           BlockStatement(<<
                               ExpressionStatement(Var("x")),
                               BlockStatement(<<
                                   BlockStatement(<<Let("x", IntLit(2)),
                                                    Let("a", IntLit(1))>>),
                                   ExpressionStatement(Var("x")),
                                   ExpressionStatement(Var("x"))>>),
                               ExpressionStatement(Var("x"))>>),
                           ExpressionStatement(Var("x"))>>)
    /\ ret.v.level = "HerFatal"
    /\ ret.v.message = "Unbalanced execution flow: 2 statements"
    /\ rts[1].output = << "Variable 'x' bound",
                          "Entering block scope.",
                          "Expression result: Integer(1)",
                          "Entering block scope.",
                          "Entering block scope.",
                          "Variable 'x' bound",
                          "Variable 'a' bound" >>

(***************************************************************************)
(* C27                                                                     *)
(***************************************************************************)
\* The calls of eval_string on the stack: each one has built its Program
\* from source text with LexerService and ParserService and runs it on a
\* new runtime.
EvalStringCalls ==
    { k \in 1..Len(stack) :
          /\ stack[k].fn = "evaluate_expression"
          /\ stack[k].pc \in {"parse_program", "execute_program"} }

\* The top of the stack runs a part of a Program built from source text.
InParsedProgram == \E k \in EvalStringCalls : k < Len(stack)

IsString(val) == "kind" \in DOMAIN val /\ val.kind = "String"

\* C27: in a program produced from source text by LexerService and
\* ParserService and run on a new runtime no expression evaluates to a
\* String and no name is bound to one, so every eval expression of it
\* yields Error("eval() expects a string") and eval_string is not entered
\* from it.
C27_ParsedProgramHasNoString ==
    [][/\ Cardinality(EvalStringCalls) <= 1
       /\ InParsedProgram =>
              /\ ret.some => ~IsString(ret.v)
              /\ \A name \in Names :
                     LET found == get(envs, ScopeOf(Len(stack)), name)
                     IN  found.some => ~IsString(found.v)
              /\ ( /\ InEval("operand")
                   /\ ret.some
                   /\ Top(stack).expr.kind = "Eval" )
                 => /\ ret' = Some(ValueError("eval() expects a string"))
                    /\ stack' = Pop(stack)]_vars

\* Inside eval_string, the statement `eval x` of the source text has yielded
\* the Error value.
C27_Witness ==
    /\ InParsedProgram
    /\ \E k \in EvalStringCalls :
           stack[k].source = "type_of(1) reflect x eval x"
    /\ InExec("value")
    /\ Statement = ExpressionStatement(Eval(Span(21, 27), Identifier(Span(26, 27), "x")))
    /\ ret = Some(ValueError("eval() expects a string"))

(***************************************************************************)
(* C28                                                                     *)
(***************************************************************************)
\* The statement the execute_program of frame k is at.
StatementOf(k) == stack[k].program.statements[stack[k].i]

\* The frames of execute_program inside a while or for statement whose body
\* is a BlockStatement.
BlockLoops ==
    { k \in ExecFrames :
          /\ stack[k].pc \in {"while_condition", "while_body", "for_initializer",
                              "for_test", "for_condition", "for_body",
                              "for_increment"}
          /\ StatementOf(k).body.kind = "BlockStatement" }

\* C28: a while or for statement whose body is a BlockStatement runs its
\* body zero times or does not terminate: what the body and the increment
\* execute changes no binding the condition sees, so a loop that has
\* entered its body is not left, and a for statement with no condition and
\* a block body is never left.
C28_BlockLoopRunsNeverOrForever ==
    [][\A k \in BlockLoops :
           /\ stack[k].body_entered
              => envs[ScopeOf(k)].store = stack[k].scope_before
           /\ ( \/ stack[k].body_entered
                \/ /\ StatementOf(k).kind = "ForStatement"
                   /\ ~StatementOf(k).condition.some )
              => \/ cut'
                 \/ /\ Len(stack') >= k
                    /\ stack'[k].i = stack[k].i
                    /\ stack'[k].pc # "statement"]_vars

\* a is bound to true and the while statement tests a; its block body has
\* bound a to false in its own scope, and the condition is true again.
C28_Witness ==
    /\ InExec("while_condition")
    /\ ret = Some(ValueBoolean(TRUE))
    /\ Top(stack).body_entered
    /\ Statement = WhileStatement(Var("a"),
                                  BlockStatement(<<Let("a", BoolLit(FALSE))>>))
    /\ rts[Top(stack).rt].output = << "Variable 'a' bound",
                                      "Entering block scope.",
                                      "Variable 'a' bound" >>

(***************************************************************************)
(* C29, C30                                                                *)
(***************************************************************************)
RECURSIVE Shape(_)
\* The statement without its expressions: its kind, the name it binds, and
\* the statements nested in it, in order.
Shape(stmt) ==
    CASE stmt.kind = "BlockStatement" ->
            [kind |-> stmt.kind,
             statements |-> [i \in 1..Len(stmt.statements) |-> Shape(stmt.statements[i])]]
      [] stmt.kind = "IfStatement" ->
            [kind |-> stmt.kind,
             then_branch |-> Shape(stmt.then_branch),
             else_branch |-> IF stmt.else_branch.some
                             THEN Some(Shape(stmt.else_branch.v)) ELSE None]
      [] stmt.kind = "WhileStatement" ->
            [kind |-> stmt.kind, body |-> Shape(stmt.body)]
      [] stmt.kind = "ForStatement" ->
            [kind |-> stmt.kind,
             initializer |-> IF stmt.initializer.some
                             THEN Some(Shape(stmt.initializer.v)) ELSE None,
             condition |-> stmt.condition.some,
             increment |-> stmt.increment.some,
             body |-> Shape(stmt.body)]
      [] stmt.kind = "LetStatement" ->
            [kind |-> stmt.kind, name |-> stmt.name,
             type_annotation |-> stmt.type_annotation,
             is_mutable |-> stmt.is_mutable]
      [] stmt.kind = "MacroDefinition" -> stmt
      [] OTHER -> [kind |-> stmt.kind]

\* The shapes of the statements of a Program.
Shapes(prog) == [i \in 1..Len(prog.statements) |-> Shape(prog.statements[i])]

\* C29: Optimizer::optimize adds, removes and reorders no statement and
\* changes the kind of no statement at any depth (an if whose condition
\* folds to a Boolean literal keeps both of its branches): it rewrites
\* expressions only, and ends_with_return gives the same answer on the
\* Program before and after it.
C29_OptimizeKeepsStatements ==
    /\ OptimizeReturned =>
           /\ Shapes(passes.program) = Shapes(passes.input)
           /\ ends_with_return(passes.program) = ends_with_return(passes.input)
    /\ passes.pc = "done" => passes.terminal = ends_with_return(passes.input)

\* The condition 2 < 1 of an if with two branches was folded to false: the
\* if has kept its return and its else block, whose expressions were folded.
C29_Witness ==
    /\ OptimizeReturned
    /\ passes.pc = "done"
    /\ passes.terminal
    /\ passes.input.statements[1] \in FoldedIfs
    /\ passes.program.statements =
           << IfStatement(BoolLit(FALSE),
                          ReturnStatement(IntLit(1)),
                          Some(BlockStatement(<<ExpressionStatement(IntLit(3)),
                                                ReturnStatement(IntLit(2))>>))) >>


\* C30: Optimizer::optimize is idempotent: optimizing the Program it has
\* left changes nothing.  Every rewrite replaces a node by another one, so
\* this says that one pass leaves no infix node over two literals that fold,
\* no grouped literal and no ternary on a Boolean literal where the
\* optimizer goes.
C30_OptimizeIsIdempotent ==
    OptimizeReturned =>
        optimize(passes.checks, passes.program)
            = [panic |-> FALSE, program |-> passes.program]

\* (1 * 1) + 2 was folded to 3 from the inside out in one pass, and a second
\* pass leaves the literal.
C30_Witness ==
    /\ OptimizeReturned
    /\ passes.input = OneExpression(Infix("Plus",
                                          Infix("Asterisk", IntLit(1), IntLit(1)),
                                          IntLit(2)))
    /\ passes.program = OneExpression(IntLit(3))
    /\ optimize(passes.checks, passes.program).program = passes.program

====
